---- MODULE Spec2Model ----
(***************************************************************************)
(* A model of the request form of openapicmd: the schema-driven field      *)
(* model, the value store and its serializer, the navigation / edit state  *)
(* machine with its specialised editors, the cURL import, and the          *)
(* asynchronous lookup and submission paths.                               *)
(*                                                                         *)
(* Conventions.  A JavaScript string that the code only compares, stores   *)
(* or concatenates is a TLA+ string.  A dot-notation key "a.b" is the      *)
(* sequence <<"a", "b">> of its property names (names contain no dot), so  *)
(* split('.') is the identity and startsWith(key + '.') is "proper         *)
(* prefix".  An optional property of a JavaScript object is a sequence of  *)
(* length 0 (absent) or 1 (present).                                       *)
(***************************************************************************)
EXTENDS Integers, Sequences, FiniteSets, TLC

VARIABLES
    \* ---- coerceValue on one input (SpecCoerce)
    coSchema, coRaw, coOut,
    \* ---- serialize / deserialize on one input (SpecSer)
    serSchema, serValues, serCollapsed, serStage, serBody, serText, serFlat, serFlat2,
    \* ---- one request form (SpecForm, SpecAsync, SpecNum, SpecImport): the props of the
    \* instance, its state, the module-level form cache, and the navigation
    \* sequence and body observed at the last collapse
    props, form, formCache, beforeCollapse,
    \* ---- the date editor on one field (SpecDate)
    dtOnly, dtValue, dtSegIdx, dtBuf, dtKeys,
    \* ---- resolvePathArray on one input (SpecPath)
    lpBody, lpPath, lpOut,
    \* ---- one JSON tree (SpecTree): the props of the instance, its state, and
    \* what it last handed to onSelect
    treeProps, tree, treeSelected,
    \* ---- extractBodyFields on one schema (SpecBuild): the schema document,
    \* the descriptors of the last build and the number of builds
    bdSchema, bdDefs, bdBuilds

coerceVars == <<coSchema, coRaw, coOut>>
serVars == <<serSchema, serValues, serCollapsed, serStage, serBody, serText, serFlat, serFlat2>>
formVars == <<props, form, formCache, beforeCollapse>>
dateVars == <<dtOnly, dtValue, dtSegIdx, dtBuf, dtKeys>>
pathVars == <<lpBody, lpPath, lpOut>>
treeVars == <<treeProps, tree, treeSelected>>
buildVars == <<bdSchema, bdDefs, bdBuilds>>
vars == <<coerceVars, serVars, formVars, dateVars, pathVars, treeVars, buildVars>>

(***************************************************************************)
(* Generic helpers                                                         *)
(***************************************************************************)
Range(s) == {s[i] : i \in DOMAIN s}

IsProperPrefix(p, s) == Len(p) < Len(s) /\ SubSeq(s, 1, Len(p)) = p

\* values[k] ?? ''
Lookup(map, k) == IF k \in DOMAIN map THEN map[k] ELSE ""

\* { ...prev, [k]: v }
MapSet(map, k, v) == (k :> v) @@ map

\* { ...prev, ...upd }
MapMerge(prev, upd) == upd @@ prev

EmptyMap == [k \in {} |-> ""]

(***************************************************************************)
(* JSON values.  Every value is a record with a tag t; the payload of a    *)
(* scalar is text (a number is its canonical JavaScript text), the payload *)
(* of an array is the list of its elements and the payload of an object    *)
(* the ordered list of its entries.                                        *)
(***************************************************************************)
Undefined == [t |-> "undefined", v |-> ""]
JNull == [t |-> "null", v |-> "null"]
JStr(s) == [t |-> "string", v |-> s]
JNum(s) == [t |-> "number", v |-> s]
JBool(b) == [t |-> "boolean", v |-> IF b THEN "true" ELSE "false"]
JArr(elems) == [t |-> "array", e |-> elems]
JObj(entries) == [t |-> "object", m |-> entries]
EmptyObj == JObj(<<>>)

ObjKeys(o) == [i \in DOMAIN o.m |-> o.m[i].k]
ObjHas(o, k) == \E i \in DOMAIN o.m : o.m[i].k = k
ObjGet(o, k) == IF ObjHas(o, k) THEN o.m[CHOOSE i \in DOMAIN o.m : o.m[i].k = k].x ELSE Undefined

\* o[k] = x : an existing key keeps its position, a new key is appended
ObjSet(o, k, x) ==
    IF ObjHas(o, k)
    THEN JObj([i \in DOMAIN o.m |-> IF o.m[i].k = k THEN [k |-> k, x |-> x] ELSE o.m[i]])
    ELSE JObj(Append(o.m, [k |-> k, x |-> x]))

RECURSIVE JsonStringify(_)
RECURSIVE StringifyEntries(_, _)
RECURSIVE StringifyElems(_, _)
StringifyElems(e, i) ==
    IF i > Len(e) THEN ""
    ELSE (IF i > 1 THEN "," ELSE "") \o JsonStringify(e[i]) \o StringifyElems(e, i + 1)

StringifyEntries(m, i) ==
    IF i > Len(m) THEN ""
    ELSE (IF i > 1 THEN "," ELSE "") \o "\"" \o m[i].k \o "\":" \o JsonStringify(m[i].x)
         \o StringifyEntries(m, i + 1)

\* JSON.stringify(value)
JsonStringify(x) ==
    CASE x.t = "string" -> "\"" \o x.v \o "\""
      [] x.t = "object" -> "{" \o StringifyEntries(x.m, 1) \o "}"
      [] x.t = "array" -> "[" \o StringifyElems(x.e, 1) \o "]"
      [] OTHER -> x.v

(***************************************************************************)
(* The raw strings the model types into fields, and what the JavaScript    *)
(* library functions Number() and JSON.parse() make of each of them.       *)
(***************************************************************************)
RawStrings ==
    {"", "null", "x", "5", "5.0", "-", "true", "false", "yes",
     "[1,2]", "[1, 2]", "{\"k\":1}", "\"q\"", "[1,"}

\* Number(raw) for text without exponent, radix prefix or "Infinity": the
\* canonical text of the number, or "NaN"
IsDigitChar(c) == c \in {"0", "1", "2", "3", "4", "5", "6", "7", "8", "9"}
OnlyDigits(str) == \A i \in 1..Len(str) : IsDigitChar(SubSeq(str, i, i))

RECURSIVE StripBlanks(_)
StripBlanks(v) ==
    IF Len(v) > 0 /\ SubSeq(v, 1, 1) = " " THEN StripBlanks(SubSeq(v, 2, Len(v)))
    ELSE IF Len(v) > 0 /\ SubSeq(v, Len(v), Len(v)) = " " THEN StripBlanks(SubSeq(v, 1, Len(v) - 1))
    ELSE v

RECURSIVE StripLeadingZeros(_)
StripLeadingZeros(d) ==
    IF Len(d) > 1 /\ SubSeq(d, 1, 1) = "0" THEN StripLeadingZeros(SubSeq(d, 2, Len(d))) ELSE d

RECURSIVE StripTrailingZeros(_)
StripTrailingZeros(d) ==
    IF Len(d) > 0 /\ SubSeq(d, Len(d), Len(d)) = "0"
    THEN StripTrailingZeros(SubSeq(d, 1, Len(d) - 1)) ELSE d

\* the position of the first "." of str, Len(str) + 1 when it has none
DotAt(str) ==
    IF \E i \in 1..Len(str) : SubSeq(str, i, i) = "."
    THEN CHOOSE i \in 1..Len(str) :
            SubSeq(str, i, i) = "." /\ \A j \in 1..(i - 1) : SubSeq(str, j, j) # "."
    ELSE Len(str) + 1

\* the canonical text of the decimal with integer digits whole and fraction
\* digits frac, or "NaN" when they are not the digits of a decimal
Decimal(negative, whole, frac) ==
    IF ~OnlyDigits(whole) \/ ~OnlyDigits(frac) \/ (whole = "" /\ frac = "") THEN "NaN"
    ELSE IF StripLeadingZeros(whole \o "0") = "0" /\ StripTrailingZeros(frac) = "" THEN "0"
    ELSE (IF negative THEN "-" ELSE "")
         \o (IF whole = "" THEN "0" ELSE StripLeadingZeros(whole))
         \o (IF StripTrailingZeros(frac) = "" THEN "" ELSE "." \o StripTrailingZeros(frac))

Unsigned(negative, body) ==
    Decimal(negative, SubSeq(body, 1, DotAt(body) - 1), SubSeq(body, DotAt(body) + 1, Len(body)))

Signed(t) ==
    IF t = "" THEN "0"
    ELSE IF SubSeq(t, 1, 1) = "-" THEN Unsigned(TRUE, SubSeq(t, 2, Len(t)))
    ELSE IF SubSeq(t, 1, 1) = "+" THEN Unsigned(FALSE, SubSeq(t, 2, Len(t)))
    ELSE Unsigned(FALSE, t)

NumberOf(raw) == Signed(StripBlanks(raw))

JsonFail == [t |-> "SyntaxError", v |-> ""]

\* JSON.parse(raw): the parsed value, or JsonFail when it throws
JsonParse(raw) ==
    CASE raw = "null" -> JNull
      [] raw = "5" -> JNum("5")
      [] raw = "5.0" -> JNum("5")
      [] raw = "true" -> JBool(TRUE)
      [] raw = "false" -> JBool(FALSE)
      [] raw = "[1,2]" -> JArr(<<JNum("1"), JNum("2")>>)
      [] raw = "[1, 2]" -> JArr(<<JNum("1"), JNum("2")>>)
      [] raw = "{\"k\":1}" -> JObj(<<[k |-> "k", x |-> JNum("1")]>>)
      [] raw = "\"q\"" -> JStr("q")
      [] raw = "{\"flag\":true}" -> JObj(<<[k |-> "flag", x |-> JBool(TRUE)]>>)
      [] OTHER -> JsonFail

(***************************************************************************)
(* Field types.  A type string is its base name followed by suffix tokens  *)
(* "?" (nullable) and "[]" (array-of), e.g. "integer[]?".                  *)
(***************************************************************************)
Ty(base) == [base |-> base, suf |-> <<>>]
TySuffix(ty, tok) == [base |-> ty.base, suf |-> Append(ty.suf, tok)]

RECURSIVE SufStr(_)
SufStr(suf) == IF suf = <<>> THEN "" ELSE Head(suf) \o SufStr(Tail(suf))
TypeStr(ty) == ty.base \o SufStr(ty.suf)

\* type.replace('?', ''): the first "?" is removed
RECURSIVE RemoveFirstQ(_)
RemoveFirstQ(suf) ==
    IF suf = <<>> THEN <<>>
    ELSE IF Head(suf) = "?" THEN Tail(suf)
    ELSE <<Head(suf)>> \o RemoveFirstQ(Tail(suf))

ReplaceQ(ty) == [base |-> ty.base, suf |-> RemoveFirstQ(ty.suf)]

\* type.endsWith('[]')
EndsWithArr(ty) == ty.suf # <<>> /\ ty.suf[Len(ty.suf)] = "[]"

(***************************************************************************)
(* Schema nodes                                                            *)
(***************************************************************************)
NoSch ==
    [type |-> <<>>, properties |-> <<>>, required |-> <<>>, oneOf |-> <<>>,
     allOf |-> <<>>, anyOf |-> <<>>, items |-> <<>>, ref |-> <<>>,
     nullable |-> FALSE, enum |-> <<>>, format |-> <<>>, example |-> <<>>,
     default |-> <<>>]

Prim(t) == [NoSch EXCEPT !.type = <<t>>]
Prop(name, s) == [name |-> name, s |-> s]
ObjSch(entries, req) ==
    [NoSch EXCEPT !.type = <<"object">>, !.properties = <<entries>>, !.required = <<req>>]
ArrSch(item) == [NoSch EXCEPT !.type = <<"array">>, !.items = <<item>>]
OneOf(alts) == [NoSch EXCEPT !.oneOf = <<alts>>]
AllOf(parts) == [NoSch EXCEPT !.allOf = <<parts>>]
RefSch(name) == [NoSch EXCEPT !.ref = <<name>>]

Has(opt) == opt # <<>>

\* fieldType(schema)
RECURSIVE fieldType(_)
fieldType(schema) ==
    IF Has(schema.oneOf)
    THEN LET alts == schema.oneOf[1]
             idx == {i \in DOMAIN alts : alts[i].type # <<"null">>}
         IN IF idx # {}
            THEN TySuffix(fieldType(alts[CHOOSE i \in idx : \A j \in idx : i <= j]), "?")
            ELSE TySuffix(Ty("any"), "?")
    ELSE IF schema.type = <<"array">>
    THEN TySuffix(IF Has(schema.items) THEN fieldType(schema.items[1]) ELSE Ty("any"), "[]")
    ELSE IF Has(schema.type) THEN Ty(schema.type[1])
    ELSE IF Has(schema.ref) THEN Ty(schema.ref[1])
    ELSE IF Has(schema.allOf) \/ Has(schema.anyOf) THEN Ty("object")
    ELSE Ty("any")

OptList(opt) == IF Has(opt) THEN opt[1] ELSE <<>>

\* { ...a, [e.name]: e.s }
PropSet(a, e) ==
    IF \E i \in DOMAIN a : a[i].name = e.name
    THEN [i \in DOMAIN a |-> IF a[i].name = e.name THEN e ELSE a[i]]
    ELSE Append(a, e)

\* { ...a, ...b } on property lists
RECURSIVE SpreadProps(_, _)
SpreadProps(a, b) == IF b = <<>> THEN a ELSE SpreadProps(PropSet(a, Head(b)), Tail(b))

\* mergeAllOf(schema)
RECURSIVE mergeAllOf(_)
RECURSIVE MergeParts(_, _, _)
MergeParts(parts, i, acc) ==
    IF i > Len(parts) THEN acc
    ELSE LET merged == mergeAllOf(parts[i])
         IN MergeParts(parts, i + 1,
                [acc EXCEPT
                    !.properties = <<SpreadProps(OptList(acc.properties), OptList(merged.properties))>>,
                    !.required = <<OptList(acc.required) \o OptList(merged.required)>>])

mergeAllOf(schema) ==
    IF ~Has(schema.allOf) THEN schema ELSE MergeParts(schema.allOf[1], 1, NoSch)

\* the recursion-depth cap of extractBodyFields
maxDepth == 2

\* a plausible slip: the cap is compared inclusively
WithinDepth_Inclusive(indent) == indent <= maxDepth

\* indent < maxDepth
WithinDepth(indent) == indent < maxDepth

\* a ?? b on optional values
Coalesce(a, b) == IF Has(a) THEN a ELSE b

\* extractBodyFields(schema, prefix, indent)
CharAt(str, i) == SubSeq(str, i, i)

\* String.prototype.split(sep) for a one-character separator
RECURSIVE SplitFrom(_, _, _, _)
SplitFrom(str, sep, i, cur) ==
    IF i > Len(str) THEN <<cur>>
    ELSE IF CharAt(str, i) = sep THEN <<cur>> \o SplitFrom(str, sep, i + 1, "")
    ELSE SplitFrom(str, sep, i + 1, cur \o CharAt(str, i))

Split(str, sep) == SplitFrom(str, sep, 1, "")

DigitValue(ch) == CHOOSE n \in 0..9 : ToString(n) = ch

\* the number written by a string of decimal digits (unary +, parseInt(_, 10))
RECURSIVE ParseInt(_)
ParseInt(str) ==
    IF str = "" THEN 0
    ELSE 10 * ParseInt(SubSeq(str, 1, Len(str) - 1)) + DigitValue(CharAt(str, Len(str)))

\* an array index: the canonical decimal text of a non-negative integer
IsArrayIndex(name) ==
    /\ name # "" /\ \A i \in 1..Len(name) : CharAt(name, i) \in {"0", "1", "2", "3", "4", "5", "6", "7", "8", "9"}
    /\ (Len(name) = 1 \/ CharAt(name, 1) # "0")

RECURSIVE IndexEntries(_, _)
IndexEntries(entries, at) ==
    IF at = {} THEN <<>>
    ELSE <<entries[CHOOSE i \in at : \A j \in at :
                      ParseInt(entries[i].name) <= ParseInt(entries[j].name)]>>
         \o IndexEntries(entries, at \ {CHOOSE i \in at : \A j \in at :
                      ParseInt(entries[i].name) <= ParseInt(entries[j].name)})

NamedEntry(e) == ~IsArrayIndex(e.name)

\* Object.entries(properties) of the parsed schema: the properties whose
\* name is an array index come first, in ascending numeric order, the
\* others follow in the order the document declares them
ObjectEntries(entries) ==
    IndexEntries(entries, {i \in DOMAIN entries : IsArrayIndex(entries[i].name)})
    \o SelectSeq(entries, NamedEntry)

\* prefix ? `${prefix}.${name}` : name, a dotted key held as the sequence of
\* its dot-free segments (the empty key is the one empty segment)
FullKey(prefix, name) ==
    IF prefix \in {<<>>, <<"">>} THEN Split(name, ".") ELSE prefix \o Split(name, ".")

RECURSIVE extractBodyFields(_, _, _)
RECURSIVE ExtractEntries(_, _, _, _, _)
ExtractEntries(entries, i, required, prefix, indent) ==
    IF i > Len(entries) THEN <<>>
    ELSE
      LET name == entries[i].name
          fs == entries[i].s
          fullKey == FullKey(prefix, name)
          alts == OptList(fs.oneOf)
          nonNullIdx == {j \in DOMAIN alts : alts[j].type # <<"null">>}
          nullable == fs.nullable
                      \/ (Has(fs.oneOf) /\ \E j \in DOMAIN alts : alts[j].type = <<"null">>)
          baseSchema == IF Has(fs.oneOf) /\ nonNullIdx # {}
                        THEN alts[CHOOSE j \in nonNullIdx : \A k \in nonNullIdx : j <= k]
                        ELSE fs
          effectiveSchema == IF Has(baseSchema.allOf) THEN mergeAllOf(baseSchema) ELSE baseSchema
          rawEnum == Coalesce(effectiveSchema.enum, fs.enum)
          enumValues == IF Has(rawEnum) /\ Len(rawEnum[1]) > 0 THEN rawEnum[1] ELSE <<>>
          format == Coalesce(effectiveSchema.format, fs.format)
          example == Coalesce(effectiveSchema.example, fs.example)
          hasProps == Has(effectiveSchema.properties) \/ Has(effectiveSchema.allOf)
          isObject == (effectiveSchema.type = <<"object">> \/ hasProps) /\ WithinDepth(indent)
          def == [label |-> name, fullKey |-> fullKey, type |-> fieldType(fs),
                  required |-> name \in Range(required), indent |-> indent,
                  isGroupHeader |-> isObject /\ hasProps, nullable |-> nullable,
                  enumValues |-> enumValues, format |-> format,
                  example |-> IF isObject /\ hasProps THEN <<>> ELSE example]
          rest == ExtractEntries(entries, i + 1, required, prefix, indent)
      IN IF isObject /\ hasProps
         THEN <<def>> \o extractBodyFields(effectiveSchema, fullKey, indent + 1) \o rest
         ELSE <<def>> \o rest

extractBodyFields(schema, prefix, indent) ==
    LET resolved == mergeAllOf(schema)
    IN IF ~Has(resolved.properties) THEN <<>>
       ELSE ExtractEntries(ObjectEntries(resolved.properties[1]), 1,
                           OptList(resolved.required), prefix, indent)

\* RequestForm.bodyFieldDefs for a request-body schema
BodyFieldDefs(schema) == extractBodyFields(schema, <<>>, 0)

(***************************************************************************)
(* Value store and serializer                                              *)
(***************************************************************************)
\* coerceValue(raw, type)
coerceValue(raw, type) ==
    LET baseType == ReplaceQ(type)
    IN IF raw = "" THEN Undefined
       ELSE IF raw = "null" THEN JNull
       ELSE IF baseType = Ty("number") \/ baseType = Ty("integer")
       THEN (IF NumberOf(raw) = "NaN" THEN JStr(raw) ELSE JNum(NumberOf(raw)))
       ELSE IF baseType = Ty("boolean") THEN JBool(raw = "true")
       ELSE IF EndsWithArr(type) \/ type = Ty("object") \/ type = Ty("any")
       THEN (IF JsonParse(raw) = JsonFail THEN JStr(raw) ELSE JsonParse(raw))
       ELSE JStr(raw)

\* a plausible slip: the intermediate container is always created afresh
RECURSIVE setNested_Fresh(_, _, _)
setNested_Fresh(obj, path, value) ==
    IF Len(path) = 1 THEN ObjSet(obj, path[1], value)
    ELSE ObjSet(obj, Head(path), setNested_Fresh(EmptyObj, Tail(path), value))

\* setNested(obj, path, value); obj is mutated in place in the code, so the
\* operator yields the object after the call
RECURSIVE setNested(_, _, _)
setNested(obj, path, value) ==
    IF Len(path) = 1 THEN ObjSet(obj, path[1], value)
    ELSE LET k == Head(path)
             cur == ObjGet(obj, k)
         IN IF cur.t = "array" THEN obj    \* a named property of an array is not serialized
            ELSE ObjSet(obj, k, setNested(IF cur.t = "object" THEN cur ELSE EmptyObj,
                                          Tail(path), value))

\* a plausible slip: startsWith(groupKey) in place of startsWith(groupKey + '.')
isChildOfCollapsed_Self(fullKey, collapsedGroups) ==
    \E groupKey \in collapsedGroups :
        Len(groupKey) <= Len(fullKey) /\ SubSeq(fullKey, 1, Len(groupKey)) = groupKey

\* isChildOfCollapsed(fullKey, collapsedGroups)
isChildOfCollapsed(fullKey, collapsedGroups) ==
    \E groupKey \in collapsedGroups : IsProperPrefix(groupKey, fullKey)

\* the object built by the loop of serializeBodyFields
RECURSIVE SerializeFrom(_, _, _, _, _)
SerializeFrom(fields, i, values, collapsedGroups, result) ==
    IF i > Len(fields) THEN result
    ELSE LET f == fields[i]
             coerced == coerceValue(Lookup(values, f.fullKey), f.type)
         IN SerializeFrom(fields, i + 1, values, collapsedGroups,
              IF f.isGroupHeader \/ isChildOfCollapsed(f.fullKey, collapsedGroups)
                 \/ coerced = Undefined
              THEN result
              ELSE setNested(result, f.fullKey, coerced))

SerializeObject(fields, values, collapsedGroups) ==
    SerializeFrom(fields, 1, values, collapsedGroups, EmptyObj)

\* serializeBodyFields(fields, values, collapsedGroups): the body text
serializeBodyFields(fields, values, collapsedGroups) ==
    LET result == SerializeObject(fields, values, collapsedGroups)
    IN IF Len(result.m) > 0 THEN JsonStringify(result) ELSE ""

\* getNestedValue(obj, path)
RECURSIVE getNestedValue(_, _)
getNestedValue(obj, path) ==
    IF path = <<>> THEN obj
    ELSE IF obj.t = "object" THEN getNestedValue(ObjGet(obj, Head(path)), Tail(path))
    ELSE Undefined     \* null, a scalar, or an array (which has no named property)

\* a plausible slip: every value, strings included, goes through JSON.stringify
FlatString_Quoted(value) == JsonStringify(value)

\* typeof value === 'string' ? value : JSON.stringify(value)
FlatString(value) == IF value.t = "string" THEN value.v ELSE JsonStringify(value)

\* deserializeBodyFields(fields, json)
RECURSIVE DeserializeFrom(_, _, _, _)
DeserializeFrom(fields, i, json, result) ==
    IF i > Len(fields) THEN result
    ELSE LET f == fields[i]
             value == getNestedValue(json, f.fullKey)
         IN DeserializeFrom(fields, i + 1, json,
              IF f.isGroupHeader \/ value = Undefined \/ value = JNull
              THEN result
              ELSE MapSet(result, f.fullKey, FlatString(value)))

deserializeBodyFields(fields, json) == DeserializeFrom(fields, 1, json, EmptyMap)

(***************************************************************************)
(* Field-model queries                                                     *)
(***************************************************************************)
LeafKeys(fields) == {fields[i].fullKey : i \in {j \in DOMAIN fields : ~fields[j].isGroupHeader}}
GroupKeys(fields) == {fields[i].fullKey : i \in {j \in DOMAIN fields : fields[j].isGroupHeader}}
FieldOf(fields, key) == fields[CHOOSE i \in DOMAIN fields : fields[i].fullKey = key]

(***************************************************************************)
(* The request form: identifiers of the navigation sequence.  An           *)
(* identifier 'body:a.b' is the kind "body" with the key <<"a","b">>; the  *)
(* absent editing field (null) is the kind "null".                         *)
(***************************************************************************)
FieldId(kind, key) == [kind |-> kind, key |-> key]
BaseUrlId == FieldId("baseUrl", <<>>)
PathId(name) == FieldId("path", <<name>>)
QueryId(name) == FieldId("query", <<name>>)
HeadersId == FieldId("headers", <<>>)
GroupId(fullKey) == FieldId("body-group", fullKey)
BodyId(fullKey) == FieldId("body", fullKey)
SubmitId == FieldId("__submit__", <<>>)
NullId == FieldId("null", <<>>)

\* the body part of the navigation sequence
RECURSIVE BodyIds(_, _, _)
BodyIds(defs, i, collapsed) ==
    IF i > Len(defs) THEN <<>>
    ELSE (IF isChildOfCollapsed(defs[i].fullKey, collapsed) THEN <<>>
          ELSE IF defs[i].isGroupHeader THEN <<GroupId(defs[i].fullKey)>>
          ELSE <<BodyId(defs[i].fullKey)>>)
         \o BodyIds(defs, i + 1, collapsed)

\* RequestForm.fields
fields(p, collapsed) ==
    <<BaseUrlId>>
    \o [i \in DOMAIN p.pathParams |-> PathId(p.pathParams[i].name)]
    \o [i \in DOMAIN p.queryParams |-> QueryId(p.queryParams[i].name)]
    \o <<HeadersId>>
    \o BodyIds(p.bodyFieldDefs, 1, collapsed)
    \o <<SubmitId>>

\* Array.prototype.indexOf, zero-based, -1 when absent
IndexOf(seq, x) ==
    IF \E i \in DOMAIN seq : seq[i] = x
    THEN (CHOOSE i \in DOMAIN seq : seq[i] = x /\ \A j \in 1..(i - 1) : seq[j] # x) - 1
    ELSE -1

\* moveFocus: the functional update of focusedField
moveFocus(flds, cur, dir) ==
    LET idx == IndexOf(flds, cur)
        next == (idx + dir + Len(flds)) % Len(flds)
    IN flds[next + 1]

\* the body descriptor of a key, <<>> when there is none (Array.find)
FindDef(defs, key) ==
    LET hits == {i \in DOMAIN defs : defs[i].fullKey = key}
    IN IF hits = {} THEN <<>> ELSE <<defs[CHOOSE i \in hits : \A j \in hits : i <= j]>>

FindLeaf(defs, key) ==
    LET hits == {i \in DOMAIN defs : defs[i].fullKey = key /\ ~defs[i].isGroupHeader}
    IN IF hits = {} THEN <<>> ELSE <<defs[CHOOSE i \in hits : \A j \in hits : i <= j]>>

(***************************************************************************)
(* Initial field values                                                    *)
(***************************************************************************)
\* String(x) of a schema's default, example or enum member
defaultFieldValue(fs) ==
    IF Has(fs.default) THEN fs.default[1]
    ELSE IF Has(fs.example) THEN fs.example[1]
    ELSE IF Has(fs.enum) THEN (IF fs.enum[1] = <<>> THEN "" ELSE fs.enum[1][1])
    ELSE ""

RECURSIVE WalkDefaults(_, _, _, _)
RECURSIVE WalkSchema(_, _, _)
WalkSchema(s, prefix, values) ==
    IF ~Has(s.properties) THEN values
    ELSE WalkDefaults(s.properties[1], 1, prefix, values)

WalkDefaults(entries, i, prefix, values) ==
    IF i > Len(entries) THEN values
    ELSE LET key == FullKey(prefix, entries[i].name)
             fs == entries[i].s
             sub == IF Has(fs.allOf) THEN mergeAllOf(fs) ELSE fs
             here == IF Has(sub.properties) THEN WalkSchema(sub, key, values)
                     ELSE MapSet(values, key, defaultFieldValue(fs))
         IN WalkDefaults(entries, i + 1, prefix, here)

buildInitialFieldValues(defs, schema) ==
    IF schema = <<>> THEN EmptyMap
    ELSE WalkSchema(mergeAllOf(schema[1]), <<>>, EmptyMap)

(***************************************************************************)
(* Strings: the tests and edits the form applies to field text             *)
(***************************************************************************)
Max(a, b) == IF a >= b THEN a ELSE b
Min(a, b) == IF a <= b THEN a ELSE b

Digits == {"0", "1", "2", "3", "4", "5", "6", "7", "8", "9"}
AllDigits(str) == \A i \in 1..Len(str) : CharAt(str, i) \in Digits

\* /^-?\d*$/
MatchesInteger(v) ==
    IF Len(v) > 0 /\ CharAt(v, 1) = "-" THEN AllDigits(SubSeq(v, 2, Len(v))) ELSE AllDigits(v)

\* /^-?\d*\.?\d*$/
MatchesNumber(v) ==
    LET body == IF Len(v) > 0 /\ CharAt(v, 1) = "-" THEN SubSeq(v, 2, Len(v)) ELSE v
        dots == {i \in 1..Len(body) : CharAt(body, i) = "."}
    IN \/ AllDigits(body)
       \/ \E d \in dots : AllDigits(SubSeq(body, 1, d - 1)) /\ AllDigits(SubSeq(body, d + 1, Len(body)))

\* /\{\{/.test(v)
HasVarRef(v) == \E i \in 1..(Len(v) - 1) : SubSeq(v, i, i + 1) = "{{"

\* String.prototype.trim on the texts of the model: leading and trailing blanks
RECURSIVE Trim(_)
Trim(v) ==
    IF Len(v) > 0 /\ CharAt(v, 1) = " " THEN Trim(SubSeq(v, 2, Len(v)))
    ELSE IF Len(v) > 0 /\ CharAt(v, Len(v)) = " " THEN Trim(SubSeq(v, 1, Len(v) - 1))
    ELSE v

(***************************************************************************)
(* Keys.  A key event is the name of a special key or the text it inserts. *)
(***************************************************************************)
KReturn == "<return>"
KCtrlReturn == "<ctrl+return>"
KEscape == "<escape>"
KUp == "<up>"
KDown == "<down>"
KLeft == "<left>"
KRight == "<right>"
KTab == "<tab>"
KShiftTab == "<shift+tab>"
KBackspace == "<backspace>"
SpecialKeys ==
    {KReturn, KCtrlReturn, KEscape, KUp, KDown, KLeft, KRight, KTab, KShiftTab, KBackspace}
IsReturn(k) == k \in {KReturn, KCtrlReturn}
IsText(k) == k \notin SpecialKeys

(***************************************************************************)
(* State of one form instance: the useState cells of RequestForm and of    *)
(* useRequest, with the calls and timers the instance has started.         *)
(***************************************************************************)
\* of tells whether the result is that of the submission issued last
NoResult == [present |-> FALSE, error |-> "", body |-> Undefined, next |-> EmptyMap, of |-> ""]
Response(error, body, next) ==
    [present |-> TRUE, error |-> error, body |-> body, next |-> next, of |-> ""]

CachedForm(s) ==
    [pathValues |-> s.pathValues, queryValues |-> s.queryValues,
     headersStr |-> s.headersStr, bodyFieldValues |-> s.bodyFieldValues]

\* Object.fromEntries(params.map((p) => [p.name, p.default ?? '']))
ParamDefaults(params) ==
    [n \in {params[i].name : i \in DOMAIN params} |->
        LET q == params[CHOOSE i \in DOMAIN params : params[i].name = n /\ \A j \in DOMAIN params : params[j].name = n => j <= i]
        IN IF q.default = <<>> THEN "" ELSE q.default[1]]

InitialForm(p, cached) ==
    [mounted |-> TRUE,
     baseUrlInput |-> p.baseUrl,
     pathValues |-> IF cached # <<>> THEN cached[1].pathValues
                    ELSE ParamDefaults(p.pathParams),
     queryValues |-> IF cached # <<>> THEN cached[1].queryValues
                     ELSE ParamDefaults(p.queryParams),
     headersStr |-> IF cached # <<>> THEN cached[1].headersStr ELSE "",
     bodyFieldValues |-> IF cached # <<>> THEN cached[1].bodyFieldValues
                         ELSE buildInitialFieldValues(p.bodyFieldDefs, p.schema),
     focusedField |-> BaseUrlId,
     editingField |-> NullId,
     treeMode |-> FALSE,
     collapsedBodyGroups |-> {},
     dateSegIdx |-> 0,
     dtTypeBuf |-> "",
     saveMode |-> FALSE,
     varPickerOpen |-> FALSE,
     fakerOpen |-> FALSE,
     fakerPatternMode |-> FALSE,
     importOpen |-> FALSE,
     importInput |-> "",
     importError |-> "",
     patternsOpen |-> FALSE,
     fieldLookups |-> p.storedLookups,
     savedLookups |-> p.storedSaved,
     lookupSetupOpen |-> FALSE,
     lookupSetupStep |-> "endpoint",
     lookupSetupSourceIdx |-> 0,
     lookupSetupEndpointIdx |-> 0,
     lookupSetupEndpointId |-> "",
     lookupSetupValuePath |-> "",
     lookupSetupLabelPath |-> "",
     lookupPickerOpen |-> FALSE,
     lookupPickerItems |-> <<>>,
     lookupPickerIdx |-> 0,
     lookupFetching |-> FALSE,
     lookupError |-> "",
     reqState |-> "idle",
     result |-> NoResult,
     lookupCalls |-> <<>>,
     submitCalls |-> <<>>,
     timers |-> 0]

\* which view the render function returns
Overlay(s) ==
    IF s.importOpen THEN "import"
    ELSE IF s.fakerOpen THEN "faker"
    ELSE IF s.varPickerOpen THEN "varPicker"
    ELSE IF s.patternsOpen THEN "patterns"
    ELSE IF s.lookupPickerOpen THEN "lookupPicker"
    ELSE IF s.lookupSetupOpen THEN "lookupSetup"
    ELSE IF s.treeMode /\ s.result.present THEN "tree"
    ELSE "form"

\* the kinds of field whose Edit row is a TextInput
BaseTypeOf(def) == ReplaceQ(def.type)
IsDateFormat(def) == def.format \in {<<"date">>, <<"date-time">>}
HasTextInput(p, f) ==
    CASE f.kind = "baseUrl" -> ~p.env
      [] f.kind \in {"path", "query", "headers"} -> TRUE
      [] f.kind = "body" ->
           LET d == FindDef(p.bodyFieldDefs, f.key)
           IN d # <<>> /\ TypeStr(BaseTypeOf(d[1])) # "boolean"
              /\ d[1].enumValues = <<>> /\ ~IsDateFormat(d[1])
      [] OTHER -> FALSE

\* the value a field displays
FieldValue(s, f) ==
    CASE f.kind = "baseUrl" -> s.baseUrlInput
      [] f.kind = "path" -> Lookup(s.pathValues, f.key[1])
      [] f.kind = "query" -> Lookup(s.queryValues, f.key[1])
      [] f.kind = "headers" -> s.headersStr
      [] f.kind = "body" -> Lookup(s.bodyFieldValues, f.key)
      [] OTHER -> ""

\* insertFakerValue: f is the focused field the callback closed over
insertFakerValue(f, a, value) ==
    CASE f.kind = "body" -> [a EXCEPT !.bodyFieldValues = MapSet(@, f.key, value)]
      [] f.kind = "path" -> [a EXCEPT !.pathValues = MapSet(@, f.key[1], value)]
      [] f.kind = "query" -> [a EXCEPT !.queryValues = MapSet(@, f.key[1], value)]
      [] f.kind = "headers" -> [a EXCEPT !.headersStr = value]
      [] OTHER -> a

\* insertVar: appends the placeholder to the latest value
insertVar(f, a, varName) ==
    LET placeholder == "{{" \o varName \o "}}"
    IN CASE f.kind = "body" ->
              [a EXCEPT !.bodyFieldValues = MapSet(@, f.key, Lookup(@, f.key) \o placeholder)]
         [] f.kind = "path" ->
              [a EXCEPT !.pathValues = MapSet(@, f.key[1], Lookup(@, f.key[1]) \o placeholder)]
         [] f.kind = "query" ->
              [a EXCEPT !.queryValues = MapSet(@, f.key[1], Lookup(@, f.key[1]) \o placeholder)]
         [] f.kind = "headers" -> [a EXCEPT !.headersStr = @ \o placeholder]
         [] OTHER -> a

\* currentFieldLookupKey: <<>> for null
currentFieldLookupKey(p, s) ==
    CASE s.focusedField.kind = "body" ->
           LET d == FindLeaf(p.bodyFieldDefs, s.focusedField.key)
           IN IF d = <<>> THEN <<>> ELSE <<d[1].label>>
      [] s.focusedField.kind \in {"path", "query"} -> <<s.focusedField.key[1]>>
      [] OTHER -> <<>>

(***************************************************************************)
(* Lookup paths                                                            *)
(***************************************************************************)
\* String(v) of a JSON value
RECURSIVE JsString(_)
RECURSIVE JoinElems(_, _)
JoinElems(e, i) ==
    IF i > Len(e) THEN ""
    ELSE (IF i > 1 THEN "," ELSE "")
         \o (IF e[i] \in {JNull, Undefined} THEN "" ELSE JsString(e[i]))
         \o JoinElems(e, i + 1)

JsString(x) ==
    CASE x.t = "object" -> "[object Object]"
      [] x.t = "array" -> JoinElems(x.e, 1)
      [] OTHER -> x.v

\* item[key] of an object or an array
Member(item, key) ==
    IF item.t = "object" THEN ObjGet(item, key)
    ELSE IF key = "length" THEN JNum(ToString(Len(item.e)))
    ELSE IF \E n \in 1..Len(item.e) : ToString(n - 1) = key
    THEN item.e[CHOOSE n \in 1..Len(item.e) : ToString(n - 1) = key]
    ELSE Undefined

\* an inner loop that stops at the first item that is not a container
RECURSIVE ResolveItems_Abort(_, _, _, _)
ResolveItems_Abort(current, i, key, isArr) ==
    IF i > Len(current) THEN <<>>
    ELSE IF key # "" /\ current[i].t \notin {"object", "array"} THEN <<>>
    ELSE (IF isArr
          THEN (IF (IF key = "" THEN current[i] ELSE Member(current[i], key)).t = "array"
                THEN (IF key = "" THEN current[i] ELSE Member(current[i], key)).e ELSE <<>>)
          ELSE IF key # "" /\ Member(current[i], key) = Undefined THEN <<>>
          ELSE <<IF key = "" THEN current[i] ELSE Member(current[i], key)>>)
         \o ResolveItems_Abort(current, i + 1, key, isArr)

\* one pass of the inner loop of resolvePathArray over current
RECURSIVE ResolveItems(_, _, _, _)
ResolveItems(current, i, key, isArr) ==
    IF i > Len(current) THEN <<>>
    ELSE LET item == current[i]
             skip == key # "" /\ item.t \notin {"object", "array"}
             val == IF key = "" THEN item ELSE Member(item, key)
             out == IF skip THEN <<>>
                    ELSE IF isArr THEN (IF val.t = "array" THEN val.e ELSE <<>>)
                    ELSE IF val # Undefined THEN <<val>> ELSE <<>>
         IN out \o ResolveItems(current, i + 1, key, isArr)

\* an outer loop that takes every segment as a plain property name
RECURSIVE ResolveParts_Plain(_, _, _)
ResolveParts_Plain(parts, i, current) ==
    IF i > Len(parts) THEN current
    ELSE ResolveParts_Plain(parts, i + 1, ResolveItems(current, 1, parts[i], FALSE))

RECURSIVE ResolveParts(_, _, _)
ResolveParts(parts, i, current) ==
    IF i > Len(parts) THEN current
    ELSE LET part == parts[i]
             isArr == Len(part) >= 2 /\ SubSeq(part, Len(part) - 1, Len(part)) = "[]"
             key == IF isArr THEN SubSeq(part, 1, Len(part) - 2) ELSE part
         IN ResolveParts(parts, i + 1, ResolveItems(current, 1, key, isArr))

\* resolvePathArray(body, path)
Strings(kept) ==
    [i \in DOMAIN kept |-> IF kept[i].t = "string" THEN kept[i].v ELSE JsString(kept[i])]

resolvePathArray(body, path) ==
    Strings(SelectSeq(ResolveParts(Split(Trim(path), "."), 1, <<body>>),
                      LAMBDA v : v \notin {JNull, Undefined}))

(***************************************************************************)
(* cURL import                                                             *)
(***************************************************************************)
\* String.prototype.toLowerCase on the letters the model uses
LowerChar(c) ==
    CASE c = "A" -> "a" [] c = "C" -> "c" [] c = "T" -> "t" [] c = "X" -> "x"
      [] c = "D" -> "d" [] c = "I" -> "i" [] c = "N" -> "n" [] OTHER -> c

RECURSIVE ToLower(_)
ToLower(str) == IF str = "" THEN "" ELSE LowerChar(CharAt(str, 1)) \o ToLower(SubSeq(str, 2, Len(str)))

\* the object without one key
ObjRemove(o, k) == JObj(SelectSeq(o.m, LAMBDA e : e.k # k))

StartsWith(str, pre) == Len(str) >= Len(pre) /\ SubSeq(str, 1, Len(pre)) = pre

EndsWith(str, post) ==
    Len(str) >= Len(post) /\ SubSeq(str, Len(str) - Len(post) + 1, Len(str)) = post

\* String.prototype.includes
Includes(str, sub) ==
    sub = "" \/ \E i \in 1..(Len(str) - Len(sub) + 1) : SubSeq(str, i, i + Len(sub) - 1) = sub

\* tokenize(input): blanks separate tokens outside quotes, quotes are dropped
RECURSIVE TokenizeFrom(_, _, _, _, _)
TokenizeFrom(input, i, cur, inSingle, inDouble) ==
    IF i > Len(input) THEN (IF cur # "" THEN <<cur>> ELSE <<>>)
    ELSE LET ch == CharAt(input, i)
         IN IF ch = "'" /\ ~inDouble THEN TokenizeFrom(input, i + 1, cur, ~inSingle, inDouble)
            ELSE IF ch = "\"" /\ ~inSingle THEN TokenizeFrom(input, i + 1, cur, inSingle, ~inDouble)
            ELSE IF ch = " " /\ ~inSingle /\ ~inDouble
            THEN (IF cur # "" THEN <<cur>> ELSE <<>>) \o TokenizeFrom(input, i + 1, "", inSingle, inDouble)
            ELSE TokenizeFrom(input, i + 1, cur \o ch, inSingle, inDouble)

tokenize(input) == TokenizeFrom(input, 1, "", FALSE, FALSE)

\* String.prototype.indexOf(ch), one-based here, 0 when absent
FirstIndex(str, ch) ==
    IF \E i \in 1..Len(str) : CharAt(str, i) = ch
    THEN CHOOSE i \in 1..Len(str) : CharAt(str, i) = ch /\ \A j \in 1..(i - 1) : CharAt(str, j) # ch
    ELSE 0

\* the argument loop of parseCurl: url, headers and body of the token list
RECURSIVE ScanTokens(_, _, _)
ScanTokens(tokens, i, acc) ==
    IF i > Len(tokens) THEN acc
    ELSE LET t == tokens[i]
             arg == IF i + 1 <= Len(tokens) THEN <<tokens[i + 1]>> ELSE <<>>
         IN CASE t \in {"-X", "--request"} -> ScanTokens(tokens, i + 2, acc)
              [] t \in {"-H", "--header"} ->
                   LET hdr == IF arg = <<>> THEN "" ELSE arg[1]
                       colon == FirstIndex(hdr, ":")
                   IN ScanTokens(tokens, i + 2,
                        IF colon > 1
                        THEN [acc EXCEPT !.headers =
                                 ObjSet(@, ToLower(Trim(SubSeq(hdr, 1, colon - 1))),
                                        JStr(Trim(SubSeq(hdr, colon + 1, Len(hdr)))))]
                        ELSE acc)
              [] t \in {"-d", "--data", "--data-raw", "--data-binary", "--data-urlencode", "--json"} ->
                   ScanTokens(tokens, i + 2, [acc EXCEPT !.body = arg])
              [] ~StartsWith(t, "-") /\ StartsWith(t, "http") ->
                   ScanTokens(tokens, i + 1, [acc EXCEPT !.url = t])
              [] StartsWith(t, "--") \/ (StartsWith(t, "-") /\ Len(t) = 2) ->
                   ScanTokens(tokens, i + 2, acc)
              [] OTHER -> ScanTokens(tokens, i + 1, acc)

\* the text from the first ch on, "" when there is none; the text before it
FromFirst(str, ch) == IF FirstIndex(str, ch) = 0 THEN "" ELSE SubSeq(str, FirstIndex(str, ch), Len(str))
BeforeFirst(str, ch) == IF FirstIndex(str, ch) = 0 THEN str ELSE SubSeq(str, 1, FirstIndex(str, ch) - 1)
AfterFirst(str, ch) == SubSeq(FromFirst(str, ch), 2, Len(FromFirst(str, ch)))

\* URLSearchParams of a query string with at most one parameter
SearchParams(search) ==
    IF search = "" THEN EmptyMap
    ELSE IF FirstIndex(search, "=") = 0 THEN (search :> "")
    ELSE (BeforeFirst(search, "=") :> AfterFirst(search, "="))

\* pathname and search parameters of the part of a url that follows the host
UrlTail(tail) ==
    [pathname |-> IF BeforeFirst(tail, "?") = "" THEN "/" ELSE BeforeFirst(tail, "?"),
     searchParams |-> SearchParams(AfterFirst(tail, "?"))]

\* the part of a url that follows "scheme://", <<>> when the url has no such start
AfterScheme(url, sep) ==
    IF sep = 0 \/ SubSeq(url, sep, sep + 2) # "://" THEN <<>> ELSE <<SubSeq(url, sep + 3, Len(url))>>

\* new URL(url) for the urls of the model, scheme://host/path?k=v : the
\* pathname and the search parameters, <<>> when the constructor throws
UrlOf(rest) ==
    IF rest = <<>> \/ rest = <<"">> \/ FirstIndex(rest[1], "/") = 1 THEN <<>>
    ELSE <<UrlTail(FromFirst(rest[1], "/"))>>

ParseUrl(url) == UrlOf(AfterScheme(url, FirstIndex(url, ":")))

\* the object parseCurl returns for the scanned arguments and the parsed url
CurlResult(scanned, urlObj, parsed) ==
    IF scanned.url = "" \/ urlObj = <<>> THEN <<>>
    ELSE <<[path |-> urlObj[1].pathname,
            queryParams |-> urlObj[1].searchParams,
            headers |-> scanned.headers,
            body |-> scanned.body,
            bodyJson |-> IF parsed.t = "object" THEN <<parsed>> ELSE <<>>]>>

\* JSON.parse(body) in its try block: JsonFail when there is no body or it throws
ParseBody(body) == IF body = <<>> \/ body = <<"">> THEN JsonFail ELSE JsonParse(body[1])

ScannedCurl(scanned) == CurlResult(scanned, ParseUrl(scanned.url), ParseBody(scanned.body))

ParseNormalized(normalized) ==
    IF ~StartsWith(normalized, "curl") THEN <<>>
    ELSE ScannedCurl(ScanTokens(tokenize(Trim(SubSeq(normalized, 5, Len(normalized)))), 1,
                                [url |-> "", headers |-> EmptyObj, body |-> <<>>]))

\* parseCurl(raw): <<>> for null
parseCurl(raw) == ParseNormalized(Trim(raw))

\* extractPathParams(template, urlPath) for templates whose parameters are whole
\* segments
RECURSIVE MatchSegments(_, _, _, _)
MatchSegments(tpl, segs, i, acc) ==
    IF i > Len(tpl) THEN <<acc>>
    ELSE LET t == tpl[i]
             isParam == Len(t) > 2 /\ CharAt(t, 1) = "{" /\ CharAt(t, Len(t)) = "}"
         IN IF isParam
            THEN (IF segs[i] = "" THEN <<>>
                  ELSE MatchSegments(tpl, segs, i + 1,
                                     MapSet(acc, SubSeq(t, 2, Len(t) - 1), segs[i])))
            ELSE IF t = segs[i] THEN MatchSegments(tpl, segs, i + 1, acc) ELSE <<>>

MatchedParams(tpl, segs) ==
    IF Len(tpl) = Len(segs) THEN MatchSegments(tpl, segs, 1, EmptyMap) ELSE <<>>

OrEmptyMap(m) == IF m = <<>> THEN EmptyMap ELSE m[1]

extractPathParams(template, urlPath) ==
    OrEmptyMap(MatchedParams(Split(template, "/"), Split(urlPath, "/")))

(***************************************************************************)
(* Date and date-time editing                                              *)
(***************************************************************************)
DT_SEGS == <<"year", "month", "day", "hour", "min", "sec">>
DATE_SEGS == <<"year", "month", "day">>

\* String(n).padStart(l, '0')
RECURSIVE PadStart(_, _)
PadStart(str, l) == IF Len(str) >= l THEN str ELSE PadStart("0" \o str, l)

Date(year, month, day, hour, min, sec) ==
    [year |-> year, month |-> month, day |-> day, hour |-> hour, min |-> min, sec |-> sec]

\* parseDt(value); now is the reading of the clock
parseDt(value, now) ==
    LET digitsAt(i, n) == i + n - 1 <= Len(value) /\ AllDigits(SubSeq(value, i, i + n - 1))
        isDate == /\ digitsAt(1, 4) /\ Len(value) >= 10
                  /\ CharAt(value, 5) = "-" /\ digitsAt(6, 2)
                  /\ CharAt(value, 8) = "-" /\ digitsAt(9, 2)
        hasTime == /\ Len(value) >= 16 /\ CharAt(value, 11) \in {"T", " "}
                   /\ digitsAt(12, 2) /\ CharAt(value, 14) = ":" /\ digitsAt(15, 2)
        hasSec == hasTime /\ Len(value) >= 19 /\ CharAt(value, 17) = ":" /\ digitsAt(18, 2)
        num(i, n) == ParseInt(SubSeq(value, i, i + n - 1))
    IN IF value = "" \/ ~isDate THEN now
       ELSE Date(num(1, 4), num(6, 2), num(9, 2),
                 IF hasTime THEN num(12, 2) ELSE 0,
                 IF hasTime THEN num(15, 2) ELSE 0,
                 IF hasSec THEN num(18, 2) ELSE 0)

\* String(n).padStart(l, '0') of a number
Pad(n, l) == PadStart(ToString(n), l)

FormatDate(d) == Pad(d.year, 4) \o "-" \o Pad(d.month, 2) \o "-" \o Pad(d.day, 2)

\* formatDt(d, dateOnly)
formatDt(d, dateOnly) ==
    IF dateOnly THEN FormatDate(d)
    ELSE FormatDate(d) \o "T" \o Pad(d.hour, 2) \o ":" \o Pad(d.min, 2) \o ":" \o Pad(d.sec, 2)

IsLeapYear(y) == (y % 4 = 0 /\ y % 100 # 0) \/ y % 400 = 0

\* new Date(year, month, 0).getDate(): the length of the month numbered month,
\* months beyond December or before January counted into the adjacent year
DaysInMonth(year, month) ==
    LET m == ((month - 1) % 12) + 1
        y == year + ((month - 1) \div 12)
    IN CASE m = 2 -> IF IsLeapYear(y) THEN 29 ELSE 28
         [] m \in {4, 6, 9, 11} -> 30
         [] OTHER -> 31

\* clampDt(seg, val, d)
clampDt(seg, val, d) ==
    LET mins == [year |-> 1900, month |-> 1, day |-> 1, hour |-> 0, min |-> 0, sec |-> 0]
        maxs == [year |-> 2100, month |-> 12, day |-> DaysInMonth(d.year, d.month),
                 hour |-> 23, min |-> 59, sec |-> 59]
    IN Max(mins[seg], Min(maxs[seg], val))

\* what a specialized editor did with a key: handled tells whether it
\* returned, wrote whether it called the field's setter, the rest is the
\* field's value, the segment cursor and the digit buffer after the key
EditResult(handled, wrote, value, dateSegIdx, dtTypeBuf) ==
    [handled |-> handled, wrote |-> wrote, value |-> value, dateSegIdx |-> dateSegIdx,
     dtTypeBuf |-> dtTypeBuf]

\* { ...d, [seg]: clampDt(seg, val, d) }
SetSegment(d, seg, val) == [d EXCEPT ![seg] = clampDt(seg, val, d)]

\* { ...d, [seg]: clampDt(seg, d[seg] + delta, d) }
StepSegment(d, seg, delta) == SetSegment(d, seg, d[seg] + delta)

SegsOf(dateOnly) == IF dateOnly THEN DATE_SEGS ELSE DT_SEGS

\* the date block of the Edit handler for one field: cur is the field's value
\* a date editor whose digit buffer survives a move of the segment cursor
DateInput_KeepBuf(dateOnly, cur, dateSegIdx, dtTypeBuf, k, now) ==
    LET seg == SegsOf(dateOnly)[dateSegIdx + 1]
        last == Len(SegsOf(dateOnly)) - 1
    IN CASE k = KBackspace -> EditResult(TRUE, TRUE, "", dateSegIdx, "")
         [] k = KLeft -> EditResult(TRUE, FALSE, cur, Max(0, dateSegIdx - 1), dtTypeBuf)
         [] k = KRight -> EditResult(TRUE, FALSE, cur, Min(last, dateSegIdx + 1), dtTypeBuf)
         [] k \in Digits ->
              EditResult(TRUE, TRUE,
                  formatDt(SetSegment(parseDt(IF cur = "" THEN formatDt(parseDt("", now), dateOnly)
                                              ELSE cur, now),
                                      seg, ParseInt(dtTypeBuf \o k)),
                           dateOnly),
                  dateSegIdx, dtTypeBuf \o k)
         [] OTHER -> EditResult(TRUE, FALSE, cur, dateSegIdx, dtTypeBuf)

DateInput(dateOnly, cur, dateSegIdx, dtTypeBuf, k, now) ==
    LET seg == SegsOf(dateOnly)[dateSegIdx + 1]
        last == Len(SegsOf(dateOnly)) - 1
        full == Len(dtTypeBuf \o k) >= (IF seg = "year" THEN 4 ELSE 2)
    IN CASE k = KBackspace -> EditResult(TRUE, TRUE, "", dateSegIdx, "")
         [] k = KLeft -> EditResult(TRUE, FALSE, cur, Max(0, dateSegIdx - 1), "")
         [] k = KRight -> EditResult(TRUE, FALSE, cur, Min(last, dateSegIdx + 1), "")
         [] k \in {KUp, KDown} ->
              EditResult(TRUE, TRUE,
                  IF cur = "" THEN formatDt(parseDt("", now), dateOnly)
                  ELSE formatDt(StepSegment(parseDt(cur, now), seg, IF k = KUp THEN 1 ELSE -1),
                                dateOnly),
                  dateSegIdx, dtTypeBuf)
         [] k = "n" ->
              EditResult(TRUE, TRUE, formatDt(parseDt("", now), dateOnly), dateSegIdx, dtTypeBuf)
         [] k \in Digits ->
              EditResult(TRUE, TRUE,
                  formatDt(SetSegment(parseDt(IF cur = "" THEN formatDt(parseDt("", now), dateOnly)
                                              ELSE cur, now),
                                      seg, ParseInt(dtTypeBuf \o k)),
                           dateOnly),
                  IF full THEN Min(last, dateSegIdx + 1) ELSE dateSegIdx,
                  IF full THEN "" ELSE dtTypeBuf \o k)
         [] OTHER -> EditResult(FALSE, FALSE, cur, dateSegIdx, dtTypeBuf)

(***************************************************************************)
(* Callbacks of the form.  s is the state of the render whose closures the *)
(* handler runs in, a the state the updates are applied to.                *)
(***************************************************************************)
\* handleSubmit, up to the await of useRequest.execute
handleSubmit(s, a, queryOverrides) ==
    [a EXCEPT !.editingField = NullId,
              !.reqState = "loading",
              !.result = NoResult,
              !.submitCalls = Append([i \in DOMAIN @ |-> [@[i] EXCEPT !.latest = FALSE]],
                                     [queryOverrides |-> queryOverrides, latest |-> TRUE])]

\* executeLookup, up to the start of the request
executeLookup(p, s, a, lookup) ==
    IF lookup.endpointId \notin {p.endpoints[i].id : i \in DOMAIN p.endpoints} THEN a
    ELSE [a EXCEPT !.lookupFetching = TRUE,
                   !.lookupError = "",
                   !.lookupCalls = Append(@, [lookup |-> lookup])]

\* the part of handleImport that follows a successful parse
ApplyImport(p, a, parsed, importHeaders) ==
    [a EXCEPT !.pathValues = MapMerge(@, extractPathParams(p.path, parsed.path)),
              !.queryValues = MapMerge(@,
                  [k \in DOMAIN parsed.queryParams
                          \cap {p.queryParams[i].name : i \in DOMAIN p.queryParams} |->
                      parsed.queryParams[k]]),
              !.headersStr = IF Len(importHeaders.m) > 0
                             THEN JsonStringify(importHeaders) ELSE @,
              !.bodyFieldValues = MapMerge(@,
                  IF parsed.bodyJson # <<>> /\ Len(p.bodyFieldDefs) > 0
                  THEN deserializeBodyFields(p.bodyFieldDefs, parsed.bodyJson[1])
                  ELSE EmptyMap),
              !.importOpen = FALSE,
              !.importInput = "",
              !.importError = ""]

ImportParsed(p, a, parsed) ==
    IF parsed = <<>> THEN [a EXCEPT !.importError = "Could not parse cURL"]
    ELSE ApplyImport(p, a, parsed[1], ObjRemove(parsed[1].headers, "content-type"))

\* handleImport
handleImport(p, s, a) == ImportParsed(p, a, parseCurl(Trim(s.importInput)))

\* a plausible slip: the next instance starts from the defaults
Unmounted_Fresh(p, a) ==
    [InitialForm(p, <<>>) EXCEPT !.mounted = FALSE,
                                 !.fieldLookups = a.fieldLookups,
                                 !.savedLookups = a.savedLookups]

\* the form after onClose or after a modal takes the panel: the instance is
\* unmounted, its calls and timers no longer reach any state; the record is
\* the state the next instance starts from
Unmounted(p, a) ==
    [InitialForm(p, <<CachedForm(a)>>) EXCEPT !.mounted = FALSE,
                                             !.fieldLookups = a.fieldLookups,
                                             !.savedLookups = a.savedLookups]

(***************************************************************************)
(* RequestForm.useInput, one operator per mode                             *)
(***************************************************************************)
LookupPickerInput(p, s, a, k) ==
    CASE k = KEscape -> [a EXCEPT !.lookupPickerOpen = FALSE]
      [] k = KUp -> [a EXCEPT !.lookupPickerIdx = Max(0, @ - 1)]
      [] k = KDown -> [a EXCEPT !.lookupPickerIdx = Min(Len(s.lookupPickerItems) - 1, @ + 1)]
      [] IsReturn(k) /\ Len(s.lookupPickerItems) > 0 ->
           LET i == s.lookupPickerIdx + 1
               picked == IF i \in DOMAIN s.lookupPickerItems
                         THEN insertFakerValue(s.focusedField, a, s.lookupPickerItems[i].value)
                         ELSE a
           IN [picked EXCEPT !.lookupPickerOpen = FALSE]
      [] OTHER -> a

applyAndClose(p, s, a, lookup) ==
    LET fieldKey == currentFieldLookupKey(p, s)
        applied == IF fieldKey # <<>>
                   THEN [a EXCEPT !.fieldLookups = MapSet(@, fieldKey[1], lookup)]
                   ELSE a
    IN [applied EXCEPT !.lookupSetupOpen = FALSE]

EndpointById(p, id) ==
    LET hits == {i \in DOMAIN p.endpoints : p.endpoints[i].id = id}
    IN IF hits = {} THEN <<>> ELSE <<p.endpoints[CHOOSE i \in hits : TRUE]>>

LookupSetupInput(p, s, a, k) ==
    LET saved == s.savedLookups
        ep == EndpointById(p, s.lookupSetupEndpointId)
        hasBody == ep # <<>> /\ ep[1].requestBody
    IN CASE s.lookupSetupStep = "source" ->
              (CASE k = KEscape -> [a EXCEPT !.lookupSetupOpen = FALSE]
                 [] k = KUp -> [a EXCEPT !.lookupSetupSourceIdx = Max(0, @ - 1)]
                 [] k = KDown ->
                      [a EXCEPT !.lookupSetupSourceIdx = Min(Max(0, Len(saved) - 1), @ + 1)]
                 [] k = "n" -> [a EXCEPT !.lookupSetupStep = "endpoint",
                                         !.lookupSetupEndpointIdx = 0]
                 [] k = "d" /\ Len(saved) > 0 ->
                      IF s.lookupSetupSourceIdx + 1 \in DOMAIN saved
                      THEN [a EXCEPT !.savedLookups =
                                        [j \in 1..(Len(saved) - 1) |->
                                            IF j < s.lookupSetupSourceIdx + 1 THEN saved[j]
                                            ELSE saved[j + 1]],
                                     !.lookupSetupSourceIdx = Max(0, @ - 1)]
                      ELSE a
                 [] IsReturn(k) /\ Len(saved) > 0 ->
                      IF s.lookupSetupSourceIdx + 1 \in DOMAIN saved
                      THEN applyAndClose(p, s, a, saved[s.lookupSetupSourceIdx + 1])
                      ELSE a
                 [] OTHER -> a)
         [] s.lookupSetupStep = "endpoint" ->
              (CASE k = KEscape ->
                      IF Len(saved) > 0 THEN [a EXCEPT !.lookupSetupStep = "source"]
                      ELSE [a EXCEPT !.lookupSetupOpen = FALSE]
                 [] k = KUp -> [a EXCEPT !.lookupSetupEndpointIdx = Max(0, @ - 1)]
                 [] k = KDown ->
                      [a EXCEPT !.lookupSetupEndpointIdx =
                                   Min(Max(0, Len(p.endpoints) - 1), @ + 1)]
                 [] IsReturn(k) ->
                      IF s.lookupSetupEndpointIdx + 1 \in DOMAIN p.endpoints
                      THEN [a EXCEPT !.lookupSetupEndpointId =
                                        p.endpoints[s.lookupSetupEndpointIdx + 1].id,
                                     !.lookupSetupStep = "query-params"]
                      ELSE a
                 [] OTHER -> a)
         [] s.lookupSetupStep = "query-params" ->
              (CASE k = KEscape -> [a EXCEPT !.lookupSetupStep = "endpoint"]
                 [] IsReturn(k) ->
                      [a EXCEPT !.lookupSetupStep = IF hasBody THEN "body" ELSE "value-path",
                                !.lookupSetupValuePath = ""]
                 [] OTHER -> a)
         [] s.lookupSetupStep = "body" ->
              (CASE k = KEscape -> [a EXCEPT !.lookupSetupStep = "query-params"]
                 [] IsReturn(k) -> [a EXCEPT !.lookupSetupValuePath = "",
                                             !.lookupSetupStep = "value-path"]
                 [] OTHER -> a)
         [] s.lookupSetupStep = "value-path" ->
              (CASE k = KEscape ->
                      [a EXCEPT !.lookupSetupStep = IF hasBody THEN "body" ELSE "query-params"]
                 [] IsReturn(k) /\ Trim(s.lookupSetupValuePath) # "" ->
                      [a EXCEPT !.lookupSetupLabelPath = "", !.lookupSetupStep = "label-path"]
                 [] OTHER -> a)
         [] s.lookupSetupStep = "label-path" ->
              (CASE k = KEscape -> [a EXCEPT !.lookupSetupStep = "value-path"]
                 [] IsReturn(k) -> [a EXCEPT !.lookupSetupStep = "save-name"]
                 [] OTHER -> a)
         [] s.lookupSetupStep = "save-name" ->
              (CASE k = KEscape -> [a EXCEPT !.lookupSetupStep = "label-path"]
                 [] IsReturn(k) ->
                      IF ep # <<>>
                      THEN applyAndClose(p, s, a,
                              [endpointId |-> ep[1].id,
                               valuePath |-> Trim(s.lookupSetupValuePath),
                               labelPath |-> Trim(s.lookupSetupLabelPath)])
                      ELSE a
                 [] OTHER -> a)
         [] OTHER -> a

\* paramMeta(p), and the same facts of a body descriptor
paramMeta(param) ==
    [baseType |-> ReplaceQ(param.type),
     nullable |-> "?" \in Range(param.type.suf) \/ param.schema.nullable,
     enumValues |-> IF Has(param.schema.enum) /\ Len(param.schema.enum[1]) > 0
                    THEN param.schema.enum[1] ELSE <<>>,
     format |-> param.schema.format]

DefMeta(def) ==
    [baseType |-> ReplaceQ(def.type), nullable |-> def.nullable,
     enumValues |-> def.enumValues, format |-> def.format]

FindParam(params, name) ==
    LET hits == {i \in DOMAIN params : params[i].name = name}
    IN IF hits = {} THEN <<>> ELSE <<params[CHOOSE i \in hits : \A j \in hits : i <= j]>>

\* the descriptor facts of a path, query or body field, <<>> when it has none
MetaOf(p, f) ==
    CASE f.kind = "body" ->
           LET d == FindDef(p.bodyFieldDefs, f.key) IN IF d = <<>> THEN <<>> ELSE <<DefMeta(d[1])>>
      [] f.kind = "path" ->
           LET q == FindParam(p.pathParams, f.key[1]) IN IF q = <<>> THEN <<>> ELSE <<paramMeta(q[1])>>
      [] f.kind = "query" ->
           LET q == FindParam(p.queryParams, f.key[1]) IN IF q = <<>> THEN <<>> ELSE <<paramMeta(q[1])>>
      [] OTHER -> <<>>

\* a plausible slip: the toggle flips between 'true' and 'false' only
Cycle_Flip(opts, cur, k) ==
    IF Len(opts) > 1 /\ opts[1] = "true" /\ opts[2] = "false"
    THEN (IF cur = "false" THEN "true" ELSE "false")
    ELSE LET idx == Max(0, IndexOf(opts, cur))
             n == Len(opts)
         IN IF k = KLeft THEN opts[((idx - 1 + n) % n) + 1] ELSE opts[((idx + 1) % n) + 1]

\* opts[(idx -/+ 1) % opts.length] with idx = max(0, opts.indexOf(cur))
Cycle(opts, cur, k) ==
    LET idx == Max(0, IndexOf(opts, cur))
        n == Len(opts)
    IN IF k = KLeft THEN opts[((idx - 1 + n) % n) + 1] ELSE opts[((idx + 1) % n) + 1]

BoolOpts(m) == IF m.nullable THEN <<"true", "false", "null">> ELSE <<"true", "false">>
EnumOpts(m) == <<"">> \o (IF m.nullable THEN m.enumValues \o <<"null">> ELSE m.enumValues)

\* the specialized part of the Edit handler for a field with descriptor facts m
\* and value cur: boolean toggle, enum cycle, date segments.  The numeric
\* character tests that follow in the code only return and change nothing.
EditField(m, cur, dateSegIdx, dtTypeBuf, k, now) ==
    IF m.baseType = Ty("boolean") /\ k \in {KLeft, KRight, " "}
    THEN EditResult(TRUE, TRUE, Cycle(BoolOpts(m), cur, k), dateSegIdx, dtTypeBuf)
    ELSE IF m.enumValues # <<>> /\ k \in {KLeft, KRight, " "}
    THEN EditResult(TRUE, TRUE, Cycle(EnumOpts(m), cur, k), dateSegIdx, dtTypeBuf)
    ELSE IF m.format \in {<<"date">>, <<"date-time">>}
    THEN DateInput(m.format = <<"date">>, cur, dateSegIdx, dtTypeBuf, k, now)
    ELSE EditResult(FALSE, FALSE, cur, dateSegIdx, dtTypeBuf)

\* the updates of the specialized editor applied to a
ApplyEdit(f, a, e) ==
    [(IF e.wrote THEN insertFakerValue(f, a, e.value) ELSE a)
     EXCEPT !.dateSegIdx = e.dateSegIdx, !.dtTypeBuf = e.dtTypeBuf]

\* the setter of a field's value applied to a
SetFieldValue(f, a, value) ==
    IF f.kind = "baseUrl" THEN [a EXCEPT !.baseUrlInput = value] ELSE insertFakerValue(f, a, value)

PatternsInput(p, s, a, k) ==
    IF k = KEscape THEN [a EXCEPT !.patternsOpen = FALSE] ELSE a

VarPickerInput(p, s, a, k) ==
    CASE k = KEscape -> [a EXCEPT !.varPickerOpen = FALSE]
      [] IsReturn(k) /\ Len(p.envVars) > 0 ->
           [insertVar(s.focusedField, a, p.envVars[1]) EXCEPT !.varPickerOpen = FALSE]
      [] OTHER -> a

\* in.gen is the value the selected generator yields
FakerInput(p, s, a, k, in) ==
    CASE k = KEscape -> [a EXCEPT !.fakerOpen = FALSE, !.fakerPatternMode = FALSE]
      [] IsReturn(k) ->
           IF s.fakerPatternMode
           THEN [a EXCEPT !.fakerOpen = FALSE, !.fakerPatternMode = FALSE]
           ELSE [insertFakerValue(s.focusedField, a, in.gen) EXCEPT !.fakerOpen = FALSE]
      [] OTHER -> a

ImportInput(p, s, a, k) ==
    CASE k = KEscape -> [a EXCEPT !.importOpen = FALSE, !.importInput = "", !.importError = ""]
      [] IsReturn(k) -> handleImport(p, s, a)
      [] OTHER -> a

SaveInput(p, s, a, k) ==
    IF IsReturn(k) \/ k = KEscape THEN [a EXCEPT !.saveMode = FALSE] ELSE a

\* a plausible slip: confirm ends editing but leaves the focus where it is
EditInput_NoAdvance(p, s, a, k, in) ==
    CASE k = KCtrlReturn -> handleSubmit(s, a, EmptyMap)
      [] k \in {KReturn, KEscape} -> [a EXCEPT !.editingField = NullId]
      [] MetaOf(p, s.editingField) # <<>> ->
           ApplyEdit(s.editingField, a,
               EditField(MetaOf(p, s.editingField)[1], FieldValue(s, s.editingField),
                         s.dateSegIdx, s.dtTypeBuf, k, in.now))
      [] OTHER -> a

EditInput(p, s, a, k, in) ==
    CASE k = KCtrlReturn -> handleSubmit(s, a, EmptyMap)
      [] k = KReturn ->
           [a EXCEPT !.editingField = NullId,
                     !.focusedField = moveFocus(fields(p, s.collapsedBodyGroups), @, 1)]
      [] k = KEscape -> [a EXCEPT !.editingField = NullId]
      [] MetaOf(p, s.editingField) # <<>> ->
           ApplyEdit(s.editingField, a,
               EditField(MetaOf(p, s.editingField)[1], FieldValue(s, s.editingField),
                         s.dateSegIdx, s.dtTypeBuf, k, in.now))
      [] OTHER -> a

\* hasSpecExamples
hasSpecExamples(p) ==
    \/ p.bodyExample # <<>>
    \/ \E i \in DOMAIN p.bodyFieldDefs :
          ~p.bodyFieldDefs[i].isGroupHeader /\ p.bodyFieldDefs[i].example # <<>>
    \/ \E i \in DOMAIN p.pathParams : Has(p.pathParams[i].schema.example)
    \/ \E i \in DOMAIN p.queryParams : Has(p.queryParams[i].schema.example)

\* the examples of the parameters that have one, by name
ParamExamples(params) ==
    [n \in {params[i].name : i \in {j \in DOMAIN params : Has(params[j].schema.example)}} |->
        FindParam(params, n)[1].schema.example[1]]

\* the examples of the body leaves that have one and that mapped does not give
OwnExamples(defs, mapped) ==
    [key \in {defs[i].fullKey :
                i \in {j \in DOMAIN defs : /\ ~defs[j].isGroupHeader /\ defs[j].example # <<>>
                                            /\ defs[j].fullKey \notin DOMAIN mapped}} |->
        FindLeaf(defs, key)[1].example[1]] @@ mapped

\* the body-level example mapped onto the fields
MappedExample(p) ==
    IF p.bodyExample # <<>> /\ p.bodyExample[1].t = "object" /\ Len(p.bodyFieldDefs) > 0
    THEN deserializeBodyFields(p.bodyFieldDefs, p.bodyExample[1]) ELSE EmptyMap

\* the 'e' key: fill every field that has a spec-defined example
FillExamples(p, s, a) ==
    [a EXCEPT !.bodyFieldValues = MapMerge(@, OwnExamples(p.bodyFieldDefs, MappedExample(p))),
              !.pathValues = MapMerge(@, ParamExamples(p.pathParams)),
              !.queryValues = MapMerge(@, ParamExamples(p.queryParams))]

\* matchVar(name): the placeholder of an environment variable of that name
matchVar(p, name) ==
    LET hits == {i \in DOMAIN p.envVars : ToLower(p.envVars[i]) = ToLower(name)}
    IN IF hits = {} THEN <<>>
       ELSE <<"{{" \o p.envVars[CHOOSE i \in hits : \A j \in hits : i <= j] \o "}}">>

\* a ?? b for the optional results of the suggestion sources
FirstOf(a, b) == IF a # <<>> THEN a ELSE b

\* the conditions of suggestFakerForField on the lower-cased field name
\* under which it returns the value of a generator
NameHint(n) ==
    \/ \E part \in {"cpf", "cnpj", "cep", "postal", "email", "e-mail", "celular", "mobile",
                     "whatsapp", "telefone", "phone", "fone", "primeiro", "sobrenome"} :
          Includes(n, part)
    \/ n \in {"zip", "nome", "name", "fullname", "full_name", "first_name", "firstname",
              "last_name", "lastname", "data", "date", "id", "uuid"}
    \/ \E post \in {"_nome", "_name", "_at", "date", "_data", "_id", "_uuid"} : EndsWith(n, post)

\* type.replace('?', '').replace('[]', '')
RECURSIVE RemoveFirstArr(_)
RemoveFirstArr(suf) ==
    IF suf = <<>> THEN <<>>
    ELSE IF Head(suf) = "[]" THEN Tail(suf)
    ELSE <<Head(suf)>> \o RemoveFirstArr(Tail(suf))

FakerBase(type) == TypeStr([base |-> type.base, suf |-> RemoveFirstArr(RemoveFirstQ(type.suf))])

\* suggestFakerForField(fieldName, type, format, enumValues), <<>> for null;
\* in.gen is the value a generator yields.  The function has four
\* parameters: the patterns its callers pass as a fifth argument are not
\* read.
suggestFakerForField(fieldName, type, format, enumValues, in) ==
    IF Len(enumValues) > 0 THEN <<enumValues[1]>>
    ELSE IF format \in {<<"date-time">>, <<"date">>, <<"email">>, <<"uuid">>} THEN <<in.gen>>
    ELSE IF NameHint(ToLower(fieldName)) THEN <<in.gen>>
    ELSE IF FakerBase(type) \in {"integer", "number"} THEN <<in.gen>>
    ELSE IF FakerBase(type) = "boolean" THEN <<"true">>
    ELSE <<>>

BodySuggestion(p, s, field, def, in) ==
    IF Lookup(s.bodyFieldValues, field.key) # "" \/ def = <<>> THEN <<>>
    ELSE IF def[1].example # <<>> THEN def[1].example
    ELSE FirstOf(matchVar(p, def[1].label),
                 suggestFakerForField(def[1].label, def[1].type, def[1].format,
                                      def[1].enumValues, in))

ParamSuggestion(p, s, field, q, in) ==
    IF FieldValue(s, field) # "" \/ q = <<>> THEN <<>>
    ELSE IF Has(q[1].schema.example) THEN q[1].schema.example
    ELSE IF q[1].default # <<>> /\ q[1].default # <<"">> THEN q[1].default
    ELSE FirstOf(matchVar(p, field.key[1]),
                 suggestFakerForField(field.key[1], q[1].type, q[1].schema.format, <<>>, in))

\* computeFieldSuggestion(field), <<>> for null
computeFieldSuggestion(p, s, field, in) ==
    CASE field.kind = "body" ->
           BodySuggestion(p, s, field, FindLeaf(p.bodyFieldDefs, field.key), in)
      [] field.kind = "path" ->
           ParamSuggestion(p, s, field, FindParam(p.pathParams, field.key[1]), in)
      [] field.kind = "query" ->
           ParamSuggestion(p, s, field, FindParam(p.queryParams, field.key[1]), in)
      [] OTHER -> <<>>

IsBoolean(m) == m # <<>> /\ m[1].baseType = Ty("boolean")
IsDate(m) == m # <<>> /\ m[1].format \in {<<"date">>, <<"date-time">>}

\* entering Edit on the field f with descriptor facts m: an empty boolean is
\* seeded with 'true', a date field restarts at its first segment
EnterEdit(f, m, cur, a) ==
    [(IF IsBoolean(m) /\ cur = "" THEN insertFakerValue(f, a, "true") ELSE a)
     EXCEPT !.editingField = f,
            !.dateSegIdx = IF IsDate(m) THEN 0 ELSE @,
            !.dtTypeBuf = IF IsDate(m) THEN "" ELSE @]

\* a plausible slip: the branch of the group headers is missing
NavReturn_NoGroups(p, s, a, k) ==
    IF k = KCtrlReturn \/ s.focusedField = SubmitId THEN handleSubmit(s, a, EmptyMap)
    ELSE IF s.focusedField = BaseUrlId /\ p.env
    THEN [a EXCEPT !.focusedField = moveFocus(fields(p, s.collapsedBodyGroups), @, 1)]
    ELSE EnterEdit(s.focusedField, MetaOf(p, s.focusedField), FieldValue(s, s.focusedField), a)

\* Enter in Navigate
NavReturn(p, s, a, k) ==
    IF k = KCtrlReturn \/ s.focusedField = SubmitId THEN handleSubmit(s, a, EmptyMap)
    ELSE IF s.focusedField = BaseUrlId /\ p.env
    THEN [a EXCEPT !.focusedField = moveFocus(fields(p, s.collapsedBodyGroups), @, 1)]
    ELSE IF s.focusedField.kind = "body-group"
    THEN [a EXCEPT !.collapsedBodyGroups =
                      IF s.focusedField.key \in @ THEN @ \ {s.focusedField.key}
                      ELSE @ \cup {s.focusedField.key}]
    ELSE EnterEdit(s.focusedField, MetaOf(p, s.focusedField), FieldValue(s, s.focusedField), a)

\* the 'l' key on the field whose lookup key is fieldKey
RunLookup(p, s, a, fieldKey) ==
    IF fieldKey = <<>> \/ fieldKey[1] \notin DOMAIN s.fieldLookups THEN a
    ELSE executeLookup(p, s, a, s.fieldLookups[fieldKey[1]])

\* the 'L' key
OpenLookupSetup(s, a, fieldKey) ==
    IF fieldKey = <<>> THEN a
    ELSE [a EXCEPT !.lookupSetupStep = IF Len(s.savedLookups) > 0 THEN "source" ELSE "endpoint",
                   !.lookupSetupSourceIdx = 0,
                   !.lookupSetupEndpointIdx = 0,
                   !.lookupSetupEndpointId = "",
                   !.lookupSetupValuePath = "",
                   !.lookupSetupLabelPath = "",
                   !.lookupSetupOpen = TRUE]

\* Tab: accept the suggestion, if any, and move on
AcceptSuggestion(f, a, sugg) == IF sugg # <<>> THEN insertFakerValue(f, a, sugg[1]) ELSE a

\* setFocusedField((cur) => moveFocus(cur, dir)) on a
MoveFocus(p, s, a, dir) ==
    [a EXCEPT !.focusedField = moveFocus(fields(p, s.collapsedBodyGroups), @, dir)]

NavInput(p, s, a, k, in) ==
    CASE k = KEscape -> Unmounted(p, a)
      [] k = "e" /\ hasSpecExamples(p) -> FillExamples(p, s, a)
      [] k = "i" -> [a EXCEPT !.importOpen = TRUE, !.importInput = "", !.importError = ""]
      [] k = "f" /\ s.focusedField.kind \in {"body", "path", "query", "headers"} ->
           [a EXCEPT !.fakerOpen = TRUE]
      [] k = "p" /\ s.focusedField.kind \in {"body", "path", "query"} ->
           [a EXCEPT !.fakerPatternMode = TRUE, !.fakerOpen = TRUE]
      [] k = "P" -> [a EXCEPT !.patternsOpen = TRUE]
      [] k = "l" -> RunLookup(p, s, a, currentFieldLookupKey(p, s))
      [] k = "L" -> OpenLookupSetup(s, a, currentFieldLookupKey(p, s))
      [] k = "v" /\ Len(p.envVars) > 0
           /\ s.focusedField.kind \in {"body", "path", "query", "headers"} ->
           IF HasVarRef(FieldValue(s, s.focusedField)) THEN insertFakerValue(s.focusedField, a, "")
           ELSE [a EXCEPT !.varPickerOpen = TRUE]
      [] k \in {"h", "S"} -> Unmounted(p, a)
      [] k = "s" -> [a EXCEPT !.saveMode = TRUE]
      [] k = KTab ->
           MoveFocus(p, s,
               AcceptSuggestion(s.focusedField, a,
                                computeFieldSuggestion(p, s, s.focusedField, in)), 1)
      [] k \in {KShiftTab, KUp} -> MoveFocus(p, s, a, -1)
      [] k = KDown -> MoveFocus(p, s, a, 1)
      [] IsReturn(k) -> NavReturn(p, s, a, k)
      [] OTHER -> a

\* RequestForm.useInput
FormInput(p, s, a, k, in) ==
    IF s.treeMode THEN a
    ELSE IF s.lookupPickerOpen THEN LookupPickerInput(p, s, a, k)
    ELSE IF s.lookupSetupOpen THEN LookupSetupInput(p, s, a, k)
    ELSE IF s.patternsOpen THEN PatternsInput(p, s, a, k)
    ELSE IF s.varPickerOpen THEN VarPickerInput(p, s, a, k)
    ELSE IF s.fakerOpen THEN FakerInput(p, s, a, k, in)
    ELSE IF s.importOpen THEN ImportInput(p, s, a, k)
    ELSE IF s.saveMode THEN SaveInput(p, s, a, k)
    ELSE IF s.editingField # NullId THEN EditInput(p, s, a, k, in)
    ELSE NavInput(p, s, a, k, in)

(***************************************************************************)
(* The input handlers of the children the form renders                     *)
(***************************************************************************)
\* ResponseView.useInput with the callbacks the form passes
ResponseInput(p, s, a, k) ==
    CASE k = "r" -> handleSubmit(s, a, EmptyMap)
      [] k = "f" /\ s.result.error = "" -> [a EXCEPT !.treeMode = TRUE]
      [] k = "n" /\ s.result.next # EmptyMap ->
           handleSubmit(s, [a EXCEPT !.queryValues = MapMerge(@, s.result.next)], s.result.next)
      [] OTHER -> a

\* the value an ink TextInput reports after a key, its cursor at the end
TextEdit(value, k) ==
    IF k = KBackspace THEN (IF value = "" THEN "" ELSE SubSeq(value, 1, Len(value) - 1))
    ELSE IF IsText(k) THEN value \o k
    ELSE value

\* the onChange filter of the Edit row of a field
AcceptsText(p, f, v) ==
    LET m == MetaOf(p, f)
    IN IF m = <<>> THEN TRUE
       ELSE IF m[1].baseType = Ty("integer") THEN MatchesInteger(v)
       ELSE IF m[1].baseType = Ty("number") THEN MatchesNumber(v)
       ELSE TRUE

\* onChange of the Edit row of the field f with the text the input reports
FieldChange(p, f, a, cur, next) ==
    IF next # cur /\ AcceptsText(p, f, next) THEN SetFieldValue(f, a, next) ELSE a

\* onChange of the import box
ImportChange(a, cur, next) ==
    IF next # cur THEN [a EXCEPT !.importInput = next, !.importError = ""] ELSE a

\* the TextInput the view mounts, if any, takes the key
TextInputs(p, s, a, k, view) ==
    CASE view = "form" /\ ~s.saveMode /\ s.editingField # NullId
              /\ HasTextInput(p, s.editingField) ->
           FieldChange(p, s.editingField, a, FieldValue(s, s.editingField),
                       TextEdit(FieldValue(s, s.editingField), k))
      [] view = "import" -> ImportChange(a, s.importInput, TextEdit(s.importInput, k))
      [] view = "lookupSetup" /\ s.lookupSetupStep = "value-path" ->
           [a EXCEPT !.lookupSetupValuePath = TextEdit(s.lookupSetupValuePath, k)]
      [] view = "lookupSetup" /\ s.lookupSetupStep = "label-path" ->
           [a EXCEPT !.lookupSetupLabelPath = TextEdit(s.lookupSetupLabelPath, k)]
      [] OTHER -> a

\* JsonTree.useInput with the onClose the form passes
TreeInput(s, a, k, view) ==
    IF view = "tree" /\ k = KEscape THEN [a EXCEPT !.treeMode = FALSE] ELSE a

\* the response view below the plain form takes the key
ResponseKeys(p, s, k, view) ==
    IF view = "form" /\ s.result.present THEN ResponseInput(p, s, s, k) ELSE s

\* the input handlers of the children that the view mounts
ChildInputs(p, s, k, view) ==
    TreeInput(s, TextInputs(p, s, ResponseKeys(p, s, k, view), k, view), k, view)

\* one key event: every mounted input handler runs on it, the children's
\* before the form's
HandleKey(p, s, k, in) == FormInput(p, s, ChildInputs(p, s, k, Overlay(s)), k, in)

(***************************************************************************)
(* Steps of a form instance                                                *)
(***************************************************************************)
NoTrace == [phase |-> "none", group |-> <<>>, fields |-> <<>>, body |-> EmptyObj]

FormBody(p, s) == SerializeObject(p.bodyFieldDefs, s.bodyFieldValues, s.collapsedBodyGroups)

\* beforeCollapse remembers the navigation sequence and the serialized body
\* at the last collapse of a group, for as long as nothing but focus, mode,
\* overlays and that group's own re-expansion has changed since
TraceOf(p, s, t, added, removed) ==
    IF added # {}
    THEN [phase |-> "collapsed", group |-> CHOOSE g \in added : TRUE,
          fields |-> fields(p, s.collapsedBodyGroups), body |-> FormBody(p, s)]
    ELSE IF removed # {}
    THEN (IF t.phase = "collapsed" /\ removed = {t.group}
          THEN [t EXCEPT !.phase = "restored"] ELSE NoTrace)
    ELSE IF t.phase = "restored" THEN NoTrace
    ELSE t

TraceAfter(p, s, s2, t) ==
    IF s2.bodyFieldValues # s.bodyFieldValues \/ ~s2.mounted THEN NoTrace
    ELSE TraceOf(p, s, t, s2.collapsedBodyGroups \ s.collapsedBodyGroups,
                 s.collapsedBodyGroups \ s2.collapsedBodyGroups)

FormStep(s2) ==
    /\ form' = s2
    /\ formCache' = <<CachedForm(s2)>>
    /\ beforeCollapse' = TraceAfter(props, form, s2, beforeCollapse)
    /\ UNCHANGED <<props, coerceVars, serVars, dateVars, pathVars, treeVars, buildVars>>

\* the state after a handler is taken when the calls and timers the instance
\* has outstanding stay within maxCalls
BoundedStep(s2, maxCalls) ==
    /\ Len(s2.submitCalls) <= maxCalls
    /\ Len(s2.lookupCalls) + s2.timers <= maxCalls
    /\ FormStep(s2)

\* a key event reaches the mounted form
KeyEvent(k, in, maxCalls) ==
    /\ form.mounted
    /\ BoundedStep(HandleKey(props, form, k, in), maxCalls)

RemoveAt(seq, i) == [j \in 1..(Len(seq) - 1) |-> IF j < i THEN seq[j] ELSE seq[j + 1]]

\* the picker items of the resolved values and labels
PickerItems(values, labels) ==
    [j \in DOMAIN values |->
        [value |-> values[j], label |-> IF j \in DOMAIN labels THEN <<labels[j]>> ELSE <<>>]]

LookupFailed(done, message) == [done EXCEPT !.lookupError = message, !.timers = @ + 1]

LookupItems(done, items) ==
    IF Len(items) = 0 THEN LookupFailed(done, "No values found at path")
    ELSE [done EXCEPT !.lookupPickerItems = items, !.lookupPickerIdx = 0,
                      !.lookupPickerOpen = TRUE]

\* the .then of executeLookup: done is the state with the fetching flag cleared
\* (resp.failed says that the result has an error field; its message may be
\* the empty string, which "||" reads as absent and "??" as present)
LookupThen(done, lookup, resp) ==
    IF (resp.failed /\ resp.error # "") \/ resp.body \in {JNull, Undefined}
    THEN LookupFailed(done, IF resp.failed THEN resp.error ELSE "Empty response")
    ELSE LookupItems(done,
             PickerItems(resolvePathArray(resp.body, lookup.valuePath),
                         IF lookup.labelPath # "" THEN resolvePathArray(resp.body, lookup.labelPath)
                         ELSE <<>>))

\* the request of the i-th outstanding lookup ends with the response resp
LookupComplete(i, resp) ==
    /\ form.mounted
    /\ i \in DOMAIN form.lookupCalls
    /\ FormStep(LookupThen([form EXCEPT !.lookupCalls = RemoveAt(@, i), !.lookupFetching = FALSE],
                           form.lookupCalls[i].lookup, resp))

\* a timer started by a failed lookup clears the error line
LookupErrorTimeout ==
    /\ form.mounted
    /\ form.timers > 0
    /\ FormStep([form EXCEPT !.timers = @ - 1, !.lookupError = ""])

\* the continuation of useRequest.execute for the result res
SubmitComplete(i, res) ==
    /\ form.mounted
    /\ i \in DOMAIN form.submitCalls
    /\ FormStep([form EXCEPT !.submitCalls = RemoveAt(@, i),
                             !.result = [res EXCEPT !.of = IF form.submitCalls[i].latest
                                                          THEN "latest" ELSE "earlier"],
                             !.reqState = IF res.error # "" THEN "error" ELSE "success"])

\* the detail panel renders a new RequestForm
Mount ==
    /\ ~form.mounted
    /\ FormStep([form EXCEPT !.mounted = TRUE])

(***************************************************************************)
(* Key actions.  maxCalls bounds the calls and timers outstanding; ins is  *)
(* the set of readings of what a key event takes from outside the form     *)
(* (the value a generator yields, the clock).                             *)
(***************************************************************************)
PressReturn(ins, maxCalls) == \E in \in ins : KeyEvent(KReturn, in, maxCalls)
PressCtrlReturn(ins, maxCalls) == \E in \in ins : KeyEvent(KCtrlReturn, in, maxCalls)
PressEscape(ins, maxCalls) == \E in \in ins : KeyEvent(KEscape, in, maxCalls)
PressUp(ins, maxCalls) == \E in \in ins : KeyEvent(KUp, in, maxCalls)
PressDown(ins, maxCalls) == \E in \in ins : KeyEvent(KDown, in, maxCalls)
PressTab(ins, maxCalls) == \E in \in ins : KeyEvent(KTab, in, maxCalls)
PressShiftTab(ins, maxCalls) == \E in \in ins : KeyEvent(KShiftTab, in, maxCalls)
PressBackspace(ins, maxCalls) == \E in \in ins : KeyEvent(KBackspace, in, maxCalls)

\* the text of the TextInput that the current view mounts and the model
\* follows, <<>> when there is none
TextTarget ==
    CASE Overlay(form) = "import" -> <<form.importInput>>
      [] Overlay(form) = "lookupSetup" /\ form.lookupSetupStep = "value-path" ->
           <<form.lookupSetupValuePath>>
      [] Overlay(form) = "lookupSetup" /\ form.lookupSetupStep = "label-path" ->
           <<form.lookupSetupLabelPath>>
      [] Overlay(form) = "form" /\ ~form.saveMode /\ form.editingField # NullId
            /\ HasTextInput(props, form.editingField) ->
           <<FieldValue(form, form.editingField)>>
      [] OTHER -> <<>>

\* the TextInputs whose text the model does not follow (the save name, the
\* endpoint filter, query parameters, body and save name of the lookup
\* wizard) are left empty: no text is typed while one of them is mounted
UnfollowedInput ==
    \/ Overlay(form) = "form" /\ form.saveMode
    \/ Overlay(form) = "lookupSetup"
         /\ form.lookupSetupStep \in {"endpoint", "query-params", "body", "save-name"}

\* the cursor of a TextInput stays at the end of its text: Left and Right are
\* pressed only where they do not move a text cursor
PressLeft(ins, maxCalls) ==
    /\ TextTarget \in {<<>>, <<"">>}
    /\ \E in \in ins : KeyEvent(KLeft, in, maxCalls)

PressRight(ins, maxCalls) ==
    /\ TextTarget \in {<<>>, <<"">>}
    /\ \E in \in ins : KeyEvent(KRight, in, maxCalls)

\* a character key or a paste that a followed TextInput takes: text is what
\* the terminal delivers in one input event; maxLen bounds the text of the input
TypeText(texts, maxLen, ins, maxCalls) ==
    \E text \in texts, in \in ins :
        /\ TextTarget # <<>>
        /\ Len(TextTarget[1]) + Len(text) <= maxLen
        /\ KeyEvent(text, in, maxCalls)

\* a character key pressed where no TextInput takes it
CommandKey(keys, ins, maxCalls) ==
    \E k \in keys, in \in ins :
        /\ TextTarget = <<>>
        /\ ~UnfollowedInput
        /\ KeyEvent(k, in, maxCalls)

\* a paste into the empty import box
Paste(texts, ins, maxCalls) ==
    \E text \in texts, in \in ins :
        /\ Overlay(form) = "import"
        /\ form.importInput = ""
        /\ KeyEvent(text, in, maxCalls)

(***************************************************************************)
(* Idle values of each group of variables: a specification that does not   *)
(* exercise a group keeps it idle.                                         *)
(***************************************************************************)
Pending == [t |-> "pending", v |-> ""]

CoerceIdle == coSchema = NoSch /\ coRaw = "" /\ coOut = Pending

SerIdle ==
    /\ serSchema = NoSch /\ serValues = EmptyMap /\ serCollapsed = {}
    /\ serStage = "idle" /\ serBody = EmptyObj /\ serText = ""
    /\ serFlat = EmptyMap /\ serFlat2 = EmptyMap

FormIdle ==
    /\ props = [idle |-> TRUE] /\ form = [mounted |-> FALSE]
    /\ formCache = <<>> /\ beforeCollapse = NoTrace

DateIdle == dtOnly = FALSE /\ dtValue = "" /\ dtSegIdx = 0 /\ dtBuf = "" /\ dtKeys = 0
NotResolved == [stage |-> "pending", list |-> <<>>]
PathIdle == lpBody = Undefined /\ lpPath = "" /\ lpOut = NotResolved
TreeIdle == treeProps = [idle |-> TRUE] /\ tree = [idle |-> TRUE] /\ treeSelected = <<>>
BuildIdle == bdSchema = NoSch /\ bdDefs = <<>> /\ bdBuilds = 0

(***************************************************************************)
(* SpecCoerce: coerceValue applied to a raw string and the type that       *)
(* fieldType gives a property schema.                                      *)
(***************************************************************************)
IntOrNull == OneOf(<<Prim("integer"), Prim("null")>>)

LeafSchemas ==
    {Prim("string"), Prim("number"), Prim("integer"), Prim("boolean"), Prim("object"),
     NoSch, RefSch("User"), AllOf(<<Prim("object")>>),
     IntOrNull, OneOf(<<Prim("number"), Prim("null")>>),
     OneOf(<<Prim("boolean"), Prim("null")>>), OneOf(<<Prim("string"), Prim("null")>>),
     OneOf(<<Prim("object"), Prim("null")>>), OneOf(<<NoSch, Prim("null")>>),
     OneOf(<<Prim("null")>>),
     ArrSch(Prim("integer")), ArrSch(IntOrNull), [NoSch EXCEPT !.type = <<"array">>],
     OneOf(<<ArrSch(Prim("string")), Prim("null")>>)}

CoerceInit ==
    /\ coSchema \in LeafSchemas
    /\ coRaw \in RawStrings
    /\ coOut = Pending
    /\ SerIdle /\ FormIdle /\ DateIdle /\ PathIdle /\ TreeIdle /\ BuildIdle

Coerce ==
    /\ coOut = Pending
    /\ coOut' = coerceValue(coRaw, fieldType(coSchema))
    /\ UNCHANGED <<coSchema, coRaw, serVars, formVars, dateVars, pathVars, treeVars, buildVars>>

SpecCoerce == CoerceInit /\ [][Coerce]_vars

(***************************************************************************)
(* SpecSer: serializeBodyFields, then deserializeBodyFields of its result, *)
(* then the same round trip once more, for a schema, a flat value map and  *)
(* a collapse set.                                                         *)
(***************************************************************************)
ScenarioSchema ==
    ObjSch(<<Prop("a", ObjSch(<<Prop("b", Prim("string")), Prop("c", Prim("integer"))>>, <<>>))>>,
           <<>>)

BodySchemas ==
    {ScenarioSchema,
     ObjSch(<<Prop("flag", OneOf(<<Prim("boolean"), Prim("null")>>)), Prop("meta", NoSch)>>, <<"flag">>),
     ObjSch(<<Prop("o", ObjSch(<<Prop("tags", ArrSch(Prim("string")))>>, <<>>)),
              Prop("n", Prim("number"))>>, <<>>),
     ObjSch(<<Prop("g", ObjSch(<<Prop("h", ObjSch(<<Prop("deep",
                ObjSch(<<Prop("x", Prim("string"))>>, <<>>))>>, <<>>))>>, <<>>)),
              Prop("s", Prim("string"))>>, <<>>)}

SerFields == BodyFieldDefs(serSchema)

SerInit ==
    /\ serSchema \in BodySchemas
    /\ serValues \in [LeafKeys(BodyFieldDefs(serSchema)) -> RawStrings]
    /\ serCollapsed \in SUBSET GroupKeys(BodyFieldDefs(serSchema))
    /\ serStage = "input"
    /\ serBody = EmptyObj /\ serText = ""
    /\ serFlat = EmptyMap /\ serFlat2 = EmptyMap
    /\ CoerceIdle /\ FormIdle /\ DateIdle /\ PathIdle /\ TreeIdle /\ BuildIdle

Serialize ==
    /\ serStage = "input"
    /\ serBody' = SerializeObject(SerFields, serValues, serCollapsed)
    /\ serText' = serializeBodyFields(SerFields, serValues, serCollapsed)
    /\ serStage' = "serialized"
    /\ UNCHANGED <<serSchema, serValues, serCollapsed, serFlat, serFlat2, coerceVars, formVars, dateVars, pathVars, treeVars, buildVars>>

Deserialize ==
    /\ serStage = "serialized"
    /\ serFlat' = deserializeBodyFields(SerFields, serBody)
    /\ serStage' = "deserialized"
    /\ UNCHANGED <<serSchema, serValues, serCollapsed, serBody, serText, serFlat2, coerceVars, formVars, dateVars, pathVars, treeVars, buildVars>>

RoundTripAgain ==
    /\ serStage = "deserialized"
    /\ serFlat2' = deserializeBodyFields(SerFields, SerializeObject(SerFields, serFlat, {}))
    /\ serStage' = "again"
    /\ UNCHANGED <<serSchema, serValues, serCollapsed, serBody, serText, serFlat, coerceVars, formVars, dateVars, pathVars, treeVars, buildVars>>

SerNext == Serialize \/ Deserialize \/ RoundTripAgain

SpecSer == SerInit /\ [][SerNext]_vars

(***************************************************************************)
(* SpecBuild: extractBodyFields applied to a request-body schema.  The     *)
(* schema is held as the document declares it; the builder may run again   *)
(* on the same schema.                                                     *)
(***************************************************************************)
MaxBuilds == 2
MaxBuildProps == 3

\* one property, under the name 'b'
Shallow == ObjSch(<<Prop("b", Prim("integer"))>>, <<>>)

\* properties nested four levels deep, an index name declared after a name,
\* leaves that declare a default, an example and an enum
Deep ==
    ObjSch(<<Prop("h", ObjSch(<<Prop("k", ObjSch(<<Prop("z", Shallow)>>, <<>>)),
                                Prop("n", [Prim("integer") EXCEPT !.default = <<"7">>]),
                                Prop("2", [Prim("string") EXCEPT !.example = <<"x">>])>>,
                              <<>>)),
             Prop("m", [Prim("boolean") EXCEPT !.enum = <<<<"true", "false">>>>])>>, <<>>)

\* a composed object whose parts declare the same property
Composed == AllOf(<<Shallow, ObjSch(<<Prop("y", Prim("string")), Prop("b", Prim("string"))>>, <<"y">>)>>)

\* one property that declares a default
Seeded == ObjSch(<<Prop("b", [Prim("integer") EXCEPT !.default = <<"7">>])>>, <<>>)

BuildKids ==
    {Prim("string"), Shallow, Deep, Composed,
     OneOf(<<Prim("null"), Seeded>>), ArrSch(Shallow), ObjSch(<<>>, <<>>), Prim("object")}

BuildNames == {"a", "a.b", "1", "10"}

\* the lists of at most n distinct names
NameLists(n) ==
    {l \in UNION {[1..k -> BuildNames] : k \in 0..n} :
        \A i, j \in DOMAIN l : l[i] = l[j] => i = j}

\* the schemas that declare the names of one list in that order, each name
\* with one of the kinds of property
BuildSchemas ==
    {ObjSch([i \in DOMAIN l |-> Prop(l[i], kid[i])], <<>>) :
        l \in NameLists(MaxBuildProps), kid \in [1..MaxBuildProps -> BuildKids]}

BuildInit ==
    /\ bdSchema \in BuildSchemas
    /\ bdDefs = <<>> /\ bdBuilds = 0
    /\ CoerceIdle /\ SerIdle /\ FormIdle /\ DateIdle /\ PathIdle /\ TreeIdle

\* useMemo(() => extractBodyFields(schema)) of a form on this schema
Build ==
    /\ bdBuilds < MaxBuilds
    /\ bdDefs' = BodyFieldDefs(bdSchema)
    /\ bdBuilds' = bdBuilds + 1
    /\ UNCHANGED <<bdSchema, coerceVars, serVars, formVars, dateVars, pathVars, treeVars>>

SpecBuild == BuildInit /\ [][Build]_vars

(***************************************************************************)
(* Configurations of the form specifications                               *)
(***************************************************************************)
Param(name) == [name |-> name, type |-> Ty("string"), schema |-> NoSch, default |-> <<>>]

Props(env, params, query, schema, envVars, lookups) ==
    [env |-> env,
     baseUrl |-> IF env THEN "https://env" ELSE "",
     path |-> "/users/{id}",
     pathParams |-> params,
     queryParams |-> query,
     schema |-> schema,
     bodyFieldDefs |-> IF schema = <<>> THEN <<>> ELSE BodyFieldDefs(schema[1]),
     bodyExample |-> <<>>,
     envVars |-> envVars,
     endpoints |-> <<[id |-> "list", requestBody |-> FALSE]>>,
     storedLookups |-> lookups,
     storedSaved |-> <<>>]

IdLookup == [endpointId |-> "list", valuePath |-> "items[].id", labelPath |-> "items[].name"]

\* a nested body with two levels of groups, an integer and a nullable boolean
FormSchema ==
    ObjSch(<<Prop("g", ObjSch(<<Prop("h", ObjSch(<<Prop("x", Prim("string"))>>, <<>>)),
                                Prop("n", Prim("integer"))>>, <<>>)),
             Prop("flag", OneOf(<<Prim("boolean"), Prim("null")>>))>>, <<>>)

NoInput == [gen |-> "5", now |-> Date(2024, 1, 31, 0, 0, 0)]

\* the result of executeRequest as executeLookup reads it
LookupResult(failed, error, body) == [failed |-> failed, error |-> error, body |-> body]

\* a caught error with a message, a caught error whose message is empty, a
\* response without a body, one whose array is empty, one with two values of
\* which the second has a name, and one with one named value
LookupResponses ==
    {LookupResult(TRUE, "timeout", JNull),
     LookupResult(TRUE, "", JNull),
     LookupResult(FALSE, "", Undefined),
     LookupResult(FALSE, "", JObj(<<[k |-> "items", x |-> JArr(<<>>)]>>)),
     LookupResult(FALSE, "", JObj(<<[k |-> "items",
           x |-> JArr(<<JObj(<<[k |-> "id", x |-> JNum("5")]>>),
                        JObj(<<[k |-> "id", x |-> JStr("x")],
                               [k |-> "name", x |-> JStr("B")]>>)>>)]>>)),
     LookupResult(FALSE, "", JObj(<<[k |-> "items",
           x |-> JArr(<<JObj(<<[k |-> "id", x |-> JNum("5")],
                               [k |-> "name", x |-> JStr("A")]>>)>>)]>>))}

SubmitResults ==
    {Response("", JObj(<<[k |-> "ok", x |-> JBool(TRUE)]>>), EmptyMap),
     Response("", JArr(<<>>), ("q" :> "5")),
     Response("Network Error", JNull, EmptyMap)}

(***************************************************************************)
(* SpecForm: navigation, Edit, group collapse, submission and the response *)
(* view of one form, with at most one submission outstanding.              *)
(***************************************************************************)
MaxFormCalls == 1
MaxFormText == 1
FormTexts == {"5", "r"}
FormCommands == {" ", "r", "f"}
FormIns == {NoInput}
FormResults == {Response("", JObj(<<[k |-> "ok", x |-> JBool(TRUE)]>>), EmptyMap),
                Response("Network Error", JNull, EmptyMap)}

FormConfigs == {Props(e, <<>>, <<>>, <<FormSchema>>, <<>>, EmptyMap) : e \in BOOLEAN}

FormInit ==
    /\ props \in FormConfigs
    /\ form = InitialForm(props, <<>>)
    /\ formCache = <<CachedForm(form)>>
    /\ beforeCollapse = NoTrace
    /\ CoerceIdle /\ SerIdle /\ DateIdle /\ PathIdle /\ TreeIdle /\ BuildIdle

FormNext ==
    \/ PressReturn(FormIns, MaxFormCalls)
    \/ PressCtrlReturn(FormIns, MaxFormCalls)
    \/ PressEscape(FormIns, MaxFormCalls)
    \/ PressUp(FormIns, MaxFormCalls)
    \/ PressDown(FormIns, MaxFormCalls)
    \/ PressTab(FormIns, MaxFormCalls)
    \/ PressShiftTab(FormIns, MaxFormCalls)
    \/ PressBackspace(FormIns, MaxFormCalls)
    \/ PressLeft(FormIns, MaxFormCalls)
    \/ PressRight(FormIns, MaxFormCalls)
    \/ TypeText(FormTexts, MaxFormText, FormIns, MaxFormCalls)
    \/ CommandKey(FormCommands, FormIns, MaxFormCalls)
    \/ \E i \in 1..MaxFormCalls, res \in FormResults : SubmitComplete(i, res)
    \/ Mount

SpecForm == FormInit /\ [][FormNext]_vars

(***************************************************************************)
(* SpecFocus: focus movement, group collapse and the boolean toggle of a   *)
(* form with a path parameter, a boolean query parameter and a body that   *)
(* has a boolean, a nullable boolean and, in one configuration, a property *)
(* whose name holds a dot next to a nested property of the same key.       *)
(***************************************************************************)
BoolParam(name) == [Param(name) EXCEPT !.type = Ty("boolean")]

FocusSchema ==
    ObjSch(<<Prop("a", ObjSch(<<Prop("b", Prim("string"))>>, <<>>)),
             Prop("on", Prim("boolean")),
             Prop("flag", OneOf(<<Prim("boolean"), Prim("null")>>))>>, <<>>)

DottedSchema ==
    ObjSch(<<Prop("a", ObjSch(<<Prop("b", Prim("string"))>>, <<>>)),
             Prop("a.b", Prim("string")),
             Prop("on", Prim("boolean"))>>, <<>>)

FocusConfigs ==
    {Props(FALSE, <<Param("id")>>, <<BoolParam("dry")>>, <<s>>, <<>>, EmptyMap) :
        s \in {FocusSchema, DottedSchema}}

FocusInit ==
    /\ props \in FocusConfigs
    /\ form = InitialForm(props, <<>>)
    /\ formCache = <<CachedForm(form)>>
    /\ beforeCollapse = NoTrace
    /\ CoerceIdle /\ SerIdle /\ DateIdle /\ PathIdle /\ TreeIdle /\ BuildIdle

FocusNext ==
    \/ PressReturn(FormIns, MaxFormCalls)
    \/ PressEscape(FormIns, MaxFormCalls)
    \/ PressUp(FormIns, MaxFormCalls)
    \/ PressDown(FormIns, MaxFormCalls)
    \/ PressTab(FormIns, MaxFormCalls)
    \/ PressShiftTab(FormIns, MaxFormCalls)
    \/ PressLeft(FormIns, MaxFormCalls)
    \/ PressRight(FormIns, MaxFormCalls)
    \/ CommandKey({" "}, FormIns, MaxFormCalls)
    \/ \E i \in 1..MaxFormCalls, res \in FormResults : SubmitComplete(i, res)
    \/ Mount

SpecFocus == FocusInit /\ [][FocusNext]_vars

(***************************************************************************)
(* SpecAsync: the lookup and submission paths of one form with a path      *)
(* parameter that has a stored lookup; up to MaxAsyncCalls calls of each   *)
(* path may be outstanding.                                                *)
(***************************************************************************)
MaxAsyncCalls == 2
AsyncCommands == {"l", "r", "n", "f"}

AsyncConfigs == {Props(TRUE, <<Param("id")>>, <<>>, <<>>, <<>>, ("id" :> IdLookup))}

AsyncInit ==
    /\ props \in AsyncConfigs
    /\ form = InitialForm(props, <<>>)
    /\ formCache = <<CachedForm(form)>>
    /\ beforeCollapse = NoTrace
    /\ CoerceIdle /\ SerIdle /\ DateIdle /\ PathIdle /\ TreeIdle /\ BuildIdle

AsyncNext ==
    \/ PressReturn({NoInput}, MaxAsyncCalls)
    \/ PressCtrlReturn({NoInput}, MaxAsyncCalls)
    \/ PressEscape({NoInput}, MaxAsyncCalls)
    \/ PressUp({NoInput}, MaxAsyncCalls)
    \/ PressDown({NoInput}, MaxAsyncCalls)
    \/ CommandKey(AsyncCommands, {NoInput}, MaxAsyncCalls)
    \/ \E i \in 1..MaxAsyncCalls, resp \in LookupResponses : LookupComplete(i, resp)
    \/ LookupErrorTimeout
    \/ \E i \in 1..MaxAsyncCalls, res \in SubmitResults : SubmitComplete(i, res)
    \/ Mount

SpecAsync == AsyncInit /\ [][AsyncNext]_vars

(***************************************************************************)
(* SpecNum: typing into an integer and a number field of one form; no call *)
(* is started.                                                             *)
(***************************************************************************)
MaxNumText == 2
NumTexts == {"-", ".", "5", "x"}
NumSchema == ObjSch(<<Prop("i", Prim("integer")), Prop("f", Prim("number"))>>, <<>>)
NumConfigs == {Props(TRUE, <<>>, <<>>, <<NumSchema>>, <<>>, EmptyMap)}

NumInit ==
    /\ props \in NumConfigs
    /\ form = InitialForm(props, <<>>)
    /\ formCache = <<CachedForm(form)>>
    /\ beforeCollapse = NoTrace
    /\ CoerceIdle /\ SerIdle /\ DateIdle /\ PathIdle /\ TreeIdle /\ BuildIdle

NumNext ==
    \/ PressReturn({NoInput}, 0)
    \/ PressEscape({NoInput}, 0)
    \/ PressUp({NoInput}, 0)
    \/ PressDown({NoInput}, 0)
    \/ PressBackspace({NoInput}, 0)
    \/ TypeText(NumTexts, MaxNumText, {NoInput}, 0)
    \/ Mount

SpecNum == NumInit /\ [][NumNext]_vars

(***************************************************************************)
(* SpecImport: the cURL import of one form whose fields hold values of an  *)
(* earlier instance; no call is started.                                   *)
(***************************************************************************)
NotCurl == "wget https://h/users/42"
NoUrl == "curl -X POST"
BadBody == "curl https://h/users/42?q=7 -H 'X: 1' -d '{bad'"
GoodBody == "curl https://h/users/42 -d '{\"flag\":true}'"
ImportLiterals == {NotCurl, NoUrl, BadBody, GoodBody}

ImportConfigs ==
    {Props(TRUE, <<Param("id")>>, <<Param("q")>>, <<FormSchema>>, <<>>, EmptyMap)}

\* the values the form cache holds from the earlier instance
ImportCached ==
    [pathValues |-> ("id" :> "1"), queryValues |-> ("q" :> "2"), headersStr |-> "{\"a\":\"b\"}",
     bodyFieldValues |-> (<<"g", "h", "x">> :> "old") @@ (<<"g", "n">> :> "")
                         @@ (<<"flag">> :> "false")]

ImportInit ==
    /\ props \in ImportConfigs
    /\ form = InitialForm(props, <<ImportCached>>)
    /\ formCache = <<CachedForm(form)>>
    /\ beforeCollapse = NoTrace
    /\ CoerceIdle /\ SerIdle /\ DateIdle /\ PathIdle /\ TreeIdle /\ BuildIdle

ImportNext ==
    \/ PressReturn({NoInput}, 0)
    \/ PressEscape({NoInput}, 0)
    \/ PressUp({NoInput}, 0)
    \/ PressDown({NoInput}, 0)
    \/ CommandKey({"i"}, {NoInput}, 0)
    \/ Paste(ImportLiterals, {NoInput}, 0)
    \/ Mount

SpecImport == ImportInit /\ [][ImportNext]_vars

(***************************************************************************)
(* SpecDate: the date block of the Edit handler on one date or date-time   *)
(* field, from the moment the field enters Edit, for MaxDateKeys keys.     *)
(***************************************************************************)
MaxDateKeys == 4
DateDigits == {"0", "2", "9"}
DateNows == {Date(2024, 1, 31, 23, 59, 59), Date(2023, 2, 28, 12, 0, 0)}
DateStarts == {Date(2024, 1, 31, 23, 59, 59), Date(2023, 2, 28, 0, 0, 0), Date(2024, 2, 29, 8, 30, 0)}

DateInit ==
    /\ dtOnly \in BOOLEAN
    /\ dtValue \in {""} \cup {formatDt(d, dtOnly) : d \in DateStarts}
    /\ dtSegIdx = 0 /\ dtBuf = "" /\ dtKeys = 0
    /\ CoerceIdle /\ SerIdle /\ FormIdle /\ PathIdle /\ TreeIdle /\ BuildIdle

\* the field and the editor state after the date block has taken the key k
DateKey(k, now) ==
    /\ dtKeys < MaxDateKeys
    /\ dtKeys' = dtKeys + 1
    /\ dtValue' = IF DateInput(dtOnly, dtValue, dtSegIdx, dtBuf, k, now).wrote
                  THEN DateInput(dtOnly, dtValue, dtSegIdx, dtBuf, k, now).value ELSE dtValue
    /\ dtSegIdx' = DateInput(dtOnly, dtValue, dtSegIdx, dtBuf, k, now).dateSegIdx
    /\ dtBuf' = DateInput(dtOnly, dtValue, dtSegIdx, dtBuf, k, now).dtTypeBuf
    /\ UNCHANGED <<dtOnly, coerceVars, serVars, formVars, pathVars, treeVars, buildVars>>

DateStep == \E k \in {KUp, KDown}, now \in DateNows : DateKey(k, now)
DateMove == \E k \in {KLeft, KRight}, now \in DateNows : DateKey(k, now)
DateClear == \E now \in DateNows : DateKey(KBackspace, now)
DateNow == \E now \in DateNows : DateKey("n", now)
DateDigit == \E k \in DateDigits, now \in DateNows : DateKey(k, now)

DateNext == DateStep \/ DateMove \/ DateClear \/ DateNow \/ DateDigit

SpecDate == DateInit /\ [][DateNext]_vars

IdObj(x) == JObj(<<[k |-> "id", x |-> x]>>)

(***************************************************************************)
(* JsonTree: the visible list                                              *)
(***************************************************************************)
ChildCount(value) ==
    IF value.t = "array" THEN Len(value.e) ELSE IF value.t = "object" THEN Len(value.m) ELSE 0

IsExpandable(value) == value.t \in {"array", "object"} /\ ChildCount(value) > 0

\* a walk that descends into every expandable node
Descends_Always(value, path, collapsed) == IsExpandable(value)

\* if (isExpandable && !collapsed.has(path))
Descends(value, path, collapsed) == IsExpandable(value) /\ path \notin collapsed

ChildKey(value, i) ==
    IF value.t = "array" THEN "[" \o ToString(i - 1) \o "]" ELSE value.m[i].k
ChildPath(value, path, i) ==
    IF value.t = "array" THEN path \o ChildKey(value, i) ELSE path \o "." \o ChildKey(value, i)
ChildValue(value, i) == IF value.t = "array" THEN value.e[i] ELSE value.m[i].x

NodeData(path, key, value, depth) ==
    [path |-> path, key |-> key, value |-> value, depth |-> depth,
     isExpandable |-> IsExpandable(value), childCount |-> ChildCount(value)]

RECURSIVE buildVisible(_, _, _, _, _)
RECURSIVE VisibleChildren(_, _, _, _, _)
buildVisible(value, key, depth, path, collapsed) ==
    <<NodeData(path, key, value, depth)>>
    \o (IF Descends(value, path, collapsed)
        THEN VisibleChildren(value, 1, depth + 1, path, collapsed) ELSE <<>>)

VisibleChildren(value, i, depth, path, collapsed) ==
    IF i > ChildCount(value) THEN <<>>
    ELSE buildVisible(ChildValue(value, i), ChildKey(value, i), depth,
                      ChildPath(value, path, i), collapsed)
         \o VisibleChildren(value, i + 1, depth, path, collapsed)

nodeValueToString(value) ==
    CASE value.t \in {"null", "undefined"} -> "null"
      [] value.t \in {"string", "number", "boolean"} -> value.v
      [] OTHER -> JsonStringify(value)

nodeMatchesQuery(node, q) ==
    IF q = "" THEN FALSE
    ELSE IF Includes(ToLower(node.key), q) THEN TRUE
    ELSE IF node.isExpandable THEN FALSE
    ELSE IF node.value.t = "string" THEN Includes(ToLower(node.value.v), q)
    ELSE IF node.value.t \in {"number", "boolean"} THEN Includes(node.value.v, q)
    ELSE FALSE

\* a translation that drops the root segment and keeps the indices
treePathToLookupPath_KeepIndex(treePath) ==
    IF treePath = "root" THEN ""
    ELSE IF StartsWith(treePath, "root.") THEN SubSeq(treePath, 6, Len(treePath))
    ELSE IF StartsWith(treePath, "root[") THEN SubSeq(treePath, 5, Len(treePath))
    ELSE treePath

\* the end of the match of /\[\d+\]/ that starts at i, 0 when there is none
RECURSIVE DigitsEnd(_, _)
DigitsEnd(str, j) ==
    IF j <= Len(str) /\ CharAt(str, j) \in Digits THEN DigitsEnd(str, j + 1) ELSE j
IndexEnd(str, i) ==
    IF CharAt(str, i) = "[" /\ DigitsEnd(str, i + 1) > i + 1
       /\ DigitsEnd(str, i + 1) <= Len(str) /\ CharAt(str, DigitsEnd(str, i + 1)) = "]"
    THEN DigitsEnd(str, i + 1) ELSE 0

\* p.replace(/\[\d+\]/g, '[]')
RECURSIVE ReplaceIndices(_, _)
ReplaceIndices(str, i) ==
    IF i > Len(str) THEN ""
    ELSE IF IndexEnd(str, i) > 0 THEN "[]" \o ReplaceIndices(str, IndexEnd(str, i) + 1)
    ELSE CharAt(str, i) \o ReplaceIndices(str, i + 1)

treePathToLookupPath(treePath) ==
    ReplaceIndices(IF treePath = "root" THEN ""
                   ELSE IF StartsWith(treePath, "root.") THEN SubSeq(treePath, 6, Len(treePath))
                   ELSE IF StartsWith(treePath, "root[") THEN SubSeq(treePath, 5, Len(treePath))
                   ELSE treePath, 1)

(***************************************************************************)
(* JsonTree: state and callbacks                                           *)
(***************************************************************************)
TreeProps(body, height, onSelect, variables) ==
    [body |-> body, height |-> height, isFocused |-> TRUE, onSelect |-> onSelect,
     activeEnv |-> variables # <<>>,
     variables |-> IF variables # <<>> THEN variables[1] ELSE EmptyMap]

InitialTree(p) ==
    [open |-> TRUE, collapsed |-> {}, cursor |-> 0, scrollOff |-> 0,
     capturing |-> FALSE, captureVarName |-> "", captureStatus |-> "idle", captureMsg |-> "",
     searching |-> FALSE, searchQuery |-> "", searchMatchIdx |-> 0,
     variables |-> p.variables, timers |-> 0]

Nodes(p, t) == buildVisible(p.body, "root", 0, "root", t.collapsed)

visibleCount(p) == Max(1, p.height - 2)

\* the indices, from 0, of the nodes that match the query
RECURSIVE MatchesFrom(_, _, _)
MatchesFrom(nodes, i, q) ==
    IF i > Len(nodes) THEN <<>>
    ELSE (IF nodeMatchesQuery(nodes[i], q) THEN <<i - 1>> ELSE <<>>) \o MatchesFrom(nodes, i + 1, q)

matchIndices(nodes, searchQuery) ==
    IF ToLower(Trim(searchQuery)) = "" THEN <<>>
    ELSE MatchesFrom(nodes, 1, ToLower(Trim(searchQuery)))

\* an offset that follows the cursor upwards only
Scroll_UpOnly(off, idx, count) == IF idx < off THEN idx ELSE off

Scroll(off, idx, count) ==
    IF idx < off THEN idx ELSE IF idx >= off + count THEN idx - count + 1 ELSE off

jumpCursor(p, a, idx) ==
    [a EXCEPT !.cursor = idx, !.scrollOff = Scroll(@, idx, visibleCount(p))]

\* a cursor that wraps at the ends of the list
NextCursor_Wrap(prev, dir, length) == (prev + dir + length) % length

\* Math.max(0, Math.min(nodes.length - 1, prev + dir))
NextCursor(prev, dir, length) == Max(0, Min(length - 1, prev + dir))

\* a move of two rows
moveCursor_Double(p, length, a, dir) == jumpCursor(p, a, NextCursor(a.cursor, 2 * dir, length))

moveCursor(p, length, a, dir) == jumpCursor(p, a, NextCursor(a.cursor, dir, length))

RECURSIVE MoveTimes(_, _, _, _, _)
MoveTimes(p, length, a, dir, n) ==
    IF n = 0 THEN a ELSE MoveTimes(p, length, moveCursor(p, length, a, dir), dir, n - 1)

\* a step through the matches that stops at the ends
NextMatch_NoWrap(prev, dir, count) == Max(0, Min(count - 1, prev + dir))

\* (prev + dir + matchIndices.length) % matchIndices.length
NextMatch(prev, dir, count) == (prev + dir + count) % count

JumpToMatch(p, a, matches, next) ==
    [jumpCursor(p, a, matches[next + 1]) EXCEPT !.searchMatchIdx = next]

goToNextMatch(p, matches, a, dir) ==
    IF Len(matches) = 0 THEN a
    ELSE JumpToMatch(p, a, matches, NextMatch(a.searchMatchIdx, dir, Len(matches)))

\* a toggle that only collapses
toggleCollapse_Add(a, path) == [a EXCEPT !.collapsed = @ \cup {path}]

toggleCollapse(a, path) ==
    [a EXCEPT !.collapsed = IF path \in @ THEN @ \ {path} ELSE @ \cup {path}]

(***************************************************************************)
(* JsonTree.useInput, one operator per mode                                *)
(***************************************************************************)
Truncate(value, n) == IF Len(value) > n THEN SubSeq(value, 1, n) \o "..." ELSE value

\* Enter in capture mode on the node under the cursor (the check mark that
\* opens the message is left out of the text).  saveEnvironment stores the
\* variables of activeEnv with the new binding; the reducer has no case for
\* UPDATE_ENV_VARIABLES, so activeEnv keeps the variables of p.
SaveCapture(p, a, name, value) ==
    [a EXCEPT !.variables = MapSet(p.variables, name, value),
              !.captureMsg = "{{" \o name \o "}} = \"" \o Truncate(value, 40) \o "\"",
              !.captureStatus = "ok", !.capturing = FALSE, !.captureVarName = "",
              !.timers = @ + 1]

CaptureInput(p, t, a, k, nodes) ==
    CASE k = KEscape -> [a EXCEPT !.capturing = FALSE, !.captureVarName = ""]
      [] IsReturn(k) ->
           IF Trim(t.captureVarName) = "" \/ ~p.activeEnv \/ t.cursor >= Len(nodes) THEN a
           ELSE SaveCapture(p, a, Trim(t.captureVarName), nodeValueToString(nodes[t.cursor + 1].value))
      [] k = KBackspace -> [a EXCEPT !.captureVarName = SubSeq(@, 1, Len(@) - 1)]
      [] IsText(k) -> [a EXCEPT !.captureVarName = @ \o k]
      [] OTHER -> a

\* the live jump to the first match of the query typed so far
LiveJump(p, a, matches) ==
    IF Len(matches) = 0 THEN a
    ELSE [jumpCursor(p, a, matches[1]) EXCEPT !.searchMatchIdx = 0]

SearchInput(p, t, a, k, nodes) ==
    CASE k = KEscape -> [a EXCEPT !.searchQuery = "", !.searching = FALSE]
      [] IsReturn(k) \/ k = "n" ->
           LiveJump(p, [a EXCEPT !.searching = FALSE], matchIndices(nodes, t.searchQuery))
      [] k = KBackspace -> [a EXCEPT !.searchQuery = SubSeq(@, 1, Len(@) - 1)]
      [] IsText(k) ->
           LiveJump(p, [a EXCEPT !.searchQuery = t.searchQuery \o k],
                    matchIndices(nodes, t.searchQuery \o k))
      [] OTHER -> a

\* the index, from 0, of the nearest node above the cursor of smaller depth
ParentIndex(nodes, cursor) ==
    IF \E i \in 0..(cursor - 1) : nodes[i + 1].depth < nodes[cursor + 1].depth
    THEN CHOOSE i \in 0..(cursor - 1) :
            /\ nodes[i + 1].depth < nodes[cursor + 1].depth
            /\ \A j \in (i + 1)..(cursor - 1) : nodes[j + 1].depth >= nodes[cursor + 1].depth
    ELSE cursor

NodeInput(p, t, a, k, nodes, node) ==
    CASE IsReturn(k) \/ k = " " ->
           IF node.isExpandable THEN toggleCollapse(a, node.path) ELSE a
      [] k = KLeft ->
           IF node.isExpandable /\ node.path \notin t.collapsed THEN toggleCollapse(a, node.path)
           ELSE IF node.depth > 0
           THEN MoveTimes(p, Len(nodes), a, -1, t.cursor - ParentIndex(nodes, t.cursor))
           ELSE a
      [] k = KRight ->
           IF node.isExpandable /\ node.path \in t.collapsed THEN toggleCollapse(a, node.path)
           ELSE a
      [] k = "v" /\ p.activeEnv -> [a EXCEPT !.capturing = TRUE, !.captureVarName = ""]
      [] OTHER -> a

NormalInput(p, t, a, k, nodes, matches) ==
    CASE k = KEscape ->
           IF t.searchQuery # "" THEN [a EXCEPT !.searchQuery = "", !.searchMatchIdx = 0]
           ELSE [a EXCEPT !.open = FALSE]
      [] k = KUp -> moveCursor(p, Len(nodes), a, -1)
      [] k = KDown -> moveCursor(p, Len(nodes), a, 1)
      [] k = "/" -> [a EXCEPT !.searching = TRUE, !.searchQuery = "", !.searchMatchIdx = 0]
      [] k = "n" /\ t.searchQuery # "" /\ Len(matches) > 0 -> goToNextMatch(p, matches, a, 1)
      [] k = "N" /\ t.searchQuery # "" /\ Len(matches) > 0 -> goToNextMatch(p, matches, a, -1)
      [] OTHER ->
           IF t.cursor >= Len(nodes) THEN a
           ELSE NodeInput(p, t, a, k, nodes, nodes[t.cursor + 1])

TreeDispatch(p, t, k, nodes) ==
    IF ~p.isFocused THEN t
    ELSE IF t.capturing THEN CaptureInput(p, t, t, k, nodes)
    ELSE IF t.searching THEN SearchInput(p, t, t, k, nodes)
    ELSE NormalInput(p, t, t, k, nodes, matchIndices(nodes, t.searchQuery))

JsonTreeInput(p, t, k) == TreeDispatch(p, t, k, Nodes(p, t))

\* the node that Enter hands to onSelect, <<>> when it hands none
SelectedNode(p, t, k, nodes) ==
    IF /\ p.isFocused /\ ~t.capturing /\ ~t.searching /\ IsReturn(k) /\ p.onSelect
       /\ t.cursor < Len(nodes) /\ ~nodes[t.cursor + 1].isExpandable
    THEN <<nodes[t.cursor + 1].path>> ELSE <<>>

Selection(path) == [path |-> path, lookup |-> treePathToLookupPath(path)]

(***************************************************************************)
(* SpecTree: one JsonTree over one body                                    *)
(***************************************************************************)
MaxTreeText == 2
TreeHeight == 4
TreeCommands == {"/", "n", "N", " ", "v"}
TreeTexts == {"i", "D", "7", "n"}
MaxTreeName == 1
MaxTreeTimers == 1
TreeNames == {"i", "n"}

TreeBodies ==
    {JObj(<<[k |-> "fields", x |-> JArr(<<IdObj(JStr("7")), IdObj(JStr("9"))>>)]>>),
     JObj(<<[k |-> "a", x |-> JArr(<<JObj(<<[k |-> "b", x |-> JBool(TRUE)]>>)>>)],
            [k |-> "e", x |-> EmptyObj], [k |-> "n", x |-> JNull], [k |-> "id", x |-> JNum("7")]>>),
     JArr(<<JStr("x"), JArr(<<JStr("Di7")>>)>>),
     JObj(<<[k |-> "a", x |-> JObj(<<[k |-> "b", x |-> JObj(<<[k |-> "c", x |-> JStr("i")]>>)]>>)],
            [k |-> "a.b", x |-> JObj(<<[k |-> "d", x |-> JStr("7")]>>)]>>),
     JStr("text")}

\* every body with and without onSelect, and two small bodies under an
\* active environment
TreeConfigs ==
    {TreeProps(body, TreeHeight, b, <<>>) : body \in TreeBodies, b \in BOOLEAN}
    \cup {TreeProps(body, TreeHeight, FALSE, <<EmptyMap>>) :
              body \in {JStr("text"), JArr(<<JStr("x"), JArr(<<JStr("Di7")>>)>>)}}

TreeInit ==
    /\ treeProps \in TreeConfigs
    /\ tree = InitialTree(treeProps)
    /\ treeSelected = <<>>
    /\ CoerceIdle /\ SerIdle /\ FormIdle /\ DateIdle /\ PathIdle /\ BuildIdle

\* a key event reaches the open tree
TreeKey(k) ==
    /\ tree.open
    /\ tree' = JsonTreeInput(treeProps, tree, k)
    /\ treeSelected' =
          IF SelectedNode(treeProps, tree, k, Nodes(treeProps, tree)) # <<>>
          THEN <<Selection(SelectedNode(treeProps, tree, k, Nodes(treeProps, tree))[1])>>
          ELSE treeSelected
    /\ UNCHANGED <<treeProps, coerceVars, serVars, formVars, dateVars, pathVars, buildVars>>

TreePress == \E k \in {KReturn, KEscape, KUp, KDown, KLeft, KRight, KBackspace} : TreeKey(k)

TreeCommand == \E k \in TreeCommands : ~tree.capturing /\ ~tree.searching /\ TreeKey(k)

TreeType ==
    \/ \E k \in TreeTexts :
          tree.searching /\ Len(tree.searchQuery) < MaxTreeText /\ TreeKey(k)
    \/ \E k \in TreeNames :
          /\ tree.capturing /\ Len(tree.captureVarName) < MaxTreeName
          /\ tree.timers < MaxTreeTimers
          /\ TreeKey(k)

\* the timer started by a capture ends the status line
CaptureTimeout ==
    /\ tree.open /\ tree.timers > 0
    /\ tree' = [tree EXCEPT !.timers = @ - 1, !.captureStatus = "idle"]
    /\ UNCHANGED <<treeProps, treeSelected, coerceVars, serVars, formVars, dateVars, pathVars, buildVars>>

TreeNext == TreePress \/ TreeCommand \/ TreeType \/ CaptureTimeout

SpecTree == TreeInit /\ [][TreeNext]_vars

(***************************************************************************)
(* SpecView: the tree of the request form, whose body is result.body.      *)
(* Submissions issued before the tree was opened complete while the tree   *)
(* is shown: each setResult replaces the body and the tree keeps its       *)
(* state.  The responses complete in the order of ViewResponses, and no    *)
(* environment is active.                                                  *)
(***************************************************************************)
MaxViewResponses == 3

ViewResponses ==
    SubSeq(<<JObj(<<[k |-> "fields", x |-> JArr(<<IdObj(JStr("7")), IdObj(JStr("9"))>>)]>>),
             JArr(<<JStr("x"), JArr(<<JStr("Di7")>>)>>),
             JStr("text"),
             JNull>>, 1, MaxViewResponses)

\* the position in ViewResponses of the body on display
Displayed == CHOOSE i \in DOMAIN ViewResponses : ViewResponses[i] = treeProps.body

ViewInit ==
    /\ treeProps = TreeProps(ViewResponses[1], TreeHeight, FALSE, <<>>)
    /\ tree = InitialTree(treeProps)
    /\ treeSelected = <<>>
    /\ CoerceIdle /\ SerIdle /\ FormIdle /\ DateIdle /\ PathIdle /\ BuildIdle

BodyReplaced ==
    /\ tree.open
    /\ Displayed < Len(ViewResponses)
    /\ treeProps' = [treeProps EXCEPT !.body = ViewResponses[Displayed + 1]]
    /\ UNCHANGED <<tree, treeSelected, coerceVars, serVars, formVars, dateVars, pathVars, buildVars>>

\* a character typed into the search query
ViewSearch ==
    \E k \in TreeTexts : tree.searching /\ Len(tree.searchQuery) < MaxTreeText /\ TreeKey(k)

ViewNext == TreePress \/ TreeCommand \/ ViewSearch \/ BodyReplaced

SpecView == ViewInit /\ [][ViewNext]_vars

(***************************************************************************)
(* SpecPath: resolvePathArray applied to one response body and one path    *)
(***************************************************************************)
PathBodies ==
    {JObj(<<[k |-> "fields", x |-> JArr(<<IdObj(JStr("7")), IdObj(JStr("9"))>>)]>>),
     JArr(<<IdObj(JStr("7")), JObj(<<[k |-> "name", x |-> JStr("x")]>>), IdObj(JNum("5"))>>),
     JObj(<<[k |-> "data", x |-> JObj(<<[k |-> "items",
         x |-> JArr(<<IdObj(JStr("u1")), JStr("str"), JNull, IdObj(JNull)>>)]>>)]>>),
     JObj(<<[k |-> "nome", x |-> JStr("x")], [k |-> "n", x |-> JNull],
            [k |-> "o", x |-> IdObj(JBool(TRUE))], [k |-> "arr", x |-> JArr(<<JStr("p"), JStr("q")>>)]>>),
     JObj(<<[k |-> "fields", x |-> JArr(<<IdObj(JArr(<<JStr("a"), JStr("b")>>)), JStr("s"),
                                          IdObj(JStr("7"))>>)]>>),
     JStr("text"),
     JArr(<<>>),
     JNull}

PathTexts ==
    {"fields[].id", "[].id", "data.items[].id", "data.items[]", "nome", "n", "o", "o.id",
     "arr", "arr[]", "", "[]", "fields[]", "fields", "missing.id", "nome.id",
     "fields[].id[]", " nome ", "id"}

PathInit ==
    /\ lpBody \in PathBodies
    /\ lpPath \in PathTexts
    /\ lpOut = NotResolved
    /\ CoerceIdle /\ SerIdle /\ FormIdle /\ DateIdle /\ TreeIdle /\ BuildIdle

Resolve ==
    /\ lpOut.stage = "pending"
    /\ lpOut' = [stage |-> "done", list |-> resolvePathArray(lpBody, lpPath)]
    /\ UNCHANGED <<lpBody, lpPath, coerceVars, serVars, formVars, dateVars, treeVars, buildVars>>

SpecPath == PathInit /\ [][Resolve]_vars

(***************************************************************************)
(* Claims about coerceValue                                                *)
(***************************************************************************)
\* the table of the specification: a type is array-of when it carries "[]",
\* otherwise it is classified by its base name, nullable or not
ClaimCoerce(raw, ty) ==
    LET parsed == IF JsonParse(raw) = JsonFail THEN JStr(raw) ELSE JsonParse(raw)
    IN IF raw = "" THEN Undefined
       ELSE IF raw = "null" THEN JNull
       ELSE IF "[]" \in Range(ty.suf) THEN parsed
       ELSE IF ty.base \in {"number", "integer"}
       THEN (IF NumberOf(raw) = "NaN" THEN JStr(raw) ELSE JNum(NumberOf(raw)))
       ELSE IF ty.base = "boolean" THEN JBool(raw = "true")
       ELSE IF ty.base \in {"object", "any"} THEN parsed
       ELSE JStr(raw)

\* C4: coerce(raw, type) follows the stated table for every descriptor type,
\* the nullable ('?') and array-of ('[]') variants included: "" is absent,
\* "null" is null, number/integer types give the parsed number or the raw
\* string, boolean types give raw = "true", array-of, object and any types
\* give the JSON parse of raw or the raw string, every other type the raw
\* string.
C4_CoerceTable == coOut # Pending => coOut = ClaimCoerce(coRaw, fieldType(coSchema))

(***************************************************************************)
(* Claims about serialize / deserialize                                    *)
(***************************************************************************)
SerLeaves == LeafKeys(SerFields)
SerTypeOf(k) == FieldOf(SerFields, k).type
SerCoerced(k) == coerceValue(Lookup(serValues, k), SerTypeOf(k))

\* k lies under a collapsed group: some proper initial part of k is collapsed
UnderCollapsed(k, collapsed) == \E n \in 1..(Len(k) - 1) : SubSeq(k, 1, n) \in collapsed

\* the addresses of the values of a nested object, not descending below stops
RECURSIVE PathsOf(_, _, _)
PathsOf(x, prefix, stops) ==
    IF prefix \in stops \/ x.t # "object" THEN {prefix}
    ELSE UNION {PathsOf(x.m[i].x, Append(prefix, x.m[i].k), stops) : i \in DOMAIN x.m}

SerRoundTripped == serStage \in {"deserialized", "again"} /\ serCollapsed = {}

\* C2 as stated: after deserialize(serialize(values, {})) every present field has
\* its original string, and a field whose coercion fails is unchanged by a
\* second round trip.
C2_RoundTripOriginal ==
    SerRoundTripped =>
        \A k \in DOMAIN serFlat :
            /\ serFlat[k] = Lookup(serValues, k)
            /\ (serStage = "again" /\ SerCoerced(k) = JStr(serValues[k]))
                   => k \in DOMAIN serFlat2 /\ serFlat2[k] = serValues[k]

\* C2 (amended): after deserialize(serialize(values, {})) the present fields are
\* the leaves whose coerced value is neither absent nor null; a present field
\* whose coercion leaves the raw string as it is (a string-typed field, or a
\* field whose coercion fails) has its original string and is unchanged by a
\* second round trip; a present field that coercion converts has the string
\* form of its coerced value.
C2_RoundTrip ==
    SerRoundTripped =>
        /\ DOMAIN serFlat = {k \in SerLeaves : SerCoerced(k) \notin {Undefined, JNull}}
        /\ \A k \in DOMAIN serFlat :
              LET c == SerCoerced(k)
              IN /\ c = JStr(serValues[k]) => serFlat[k] = serValues[k]
                 /\ c.t = "string" => serFlat[k] = c.v
                 /\ c.t \in {"number", "boolean"} => serFlat[k] = c.v
                 /\ c.t \in {"object", "array"} => serFlat[k] = JsonStringify(c)
                 /\ (serStage = "again" /\ c = JStr(serValues[k]))
                        => k \in DOMAIN serFlat2 /\ serFlat2[k] = serValues[k]

\* an integer field holding unparsable text has gone through two round trips
C2_Witness ==
    /\ serStage = "again" /\ serCollapsed = {} /\ serSchema = ScenarioSchema
    /\ serValues[<<"a", "c">>] = "x" /\ serFlat2[<<"a", "c">>] = "x"
    /\ serValues[<<"a", "b">>] = "5.0" /\ serFlat[<<"a", "b">>] = "5.0"

ScenarioValues == (<<"a", "b">> :> "x") @@ (<<"a", "c">> :> "5")

\* C3: serialize places, for every non-group descriptor that is not under a
\* collapsed group and whose coerced value is not absent, exactly that coerced
\* value at its dot-path of a fresh nested structure and adds nothing else; the
\* scenario a.b = "x", a.c = "5" gives {"a":{"b":"x","c":5}}; when no field
\* produces a value the result has no keys and the body text is empty.
C3_Serialize ==
    serStage \in {"serialized", "deserialized", "again"} =>
        LET shown == {k \in SerLeaves :
                        ~UnderCollapsed(k, serCollapsed) /\ SerCoerced(k) # Undefined}
        IN /\ \A k \in shown : getNestedValue(serBody, k) = SerCoerced(k)
           /\ PathsOf(serBody, <<>>, shown) = shown
           /\ shown = {} => serBody = EmptyObj /\ serText = ""
           /\ shown # {} => serText = JsonStringify(serBody)
           /\ (serSchema = ScenarioSchema /\ serValues = ScenarioValues) =>
                 /\ serCollapsed = {} => serText = "{\"a\":{\"b\":\"x\",\"c\":5}}"
                 /\ serCollapsed = {<<"a">>} => serText = ""

\* the scenario has been serialized with nothing collapsed
C3_Witness ==
    /\ serStage = "serialized" /\ serSchema = ScenarioSchema
    /\ serValues = ScenarioValues /\ serCollapsed = {}
    /\ serText = "{\"a\":{\"b\":\"x\",\"c\":5}}"

(***************************************************************************)
(* Claims about the form: collapse, navigation and Edit                    *)
(***************************************************************************)
FormDefs == props.bodyFieldDefs
FormCoerced(k) == coerceValue(Lookup(form.bodyFieldValues, k), FieldOf(FormDefs, k).type)
NavIdOf(d) == IF d.isGroupHeader THEN GroupId(d.fullKey) ELSE BodyId(d.fullKey)
FormNav == fields(props, form.collapsedBodyGroups)

\* the identifier is a body row below the group g
BelowGroup(id, g) ==
    id.kind \in {"body", "body-group"} /\ \E n \in 1..(Len(id.key) - 1) : SubSeq(id.key, 1, n) = g

\* the descriptors shown in the navigation sequence are those not under a
\* collapsed group
NavShowsOpenRows ==
    \A i \in DOMAIN FormDefs :
        NavIdOf(FormDefs[i]) \in Range(FormNav)
            <=> ~UnderCollapsed(FormDefs[i].fullKey, form.collapsedBodyGroups)

\* since the last collapse of a group only its descendants are gone from the
\* navigation sequence and from the body, and after its re-expansion both are
\* what they were before
CollapseRemovesAndRestores ==
    /\ beforeCollapse.phase = "collapsed" =>
          /\ FormNav = SelectSeq(beforeCollapse.fields,
                                 LAMBDA id : ~BelowGroup(id, beforeCollapse.group))
          /\ \A k \in LeafKeys(FormDefs) :
                getNestedValue(FormBody(props, form), k) =
                    IF BelowGroup(BodyId(k), beforeCollapse.group) THEN Undefined
                    ELSE getNestedValue(beforeCollapse.body, k)
    /\ beforeCollapse.phase = "restored" =>
          /\ FormNav = beforeCollapse.fields
          /\ FormBody(props, form) = beforeCollapse.body

\* C1 as stated: a descriptor is excluded from the navigation sequence and
\* from the serialized output if and only if it is a descendant of a collapsed
\* group; collapsing a group removes exactly its descendants from both, and
\* re-expanding it restores both.
C1_CollapseOriginal ==
    /\ NavShowsOpenRows
    /\ \A k \in LeafKeys(FormDefs) :
          getNestedValue(FormBody(props, form), k) = Undefined
              <=> UnderCollapsed(k, form.collapsedBodyGroups)
    /\ CollapseRemovesAndRestores

\* C1 (amended): a descriptor is in the navigation sequence if and only if it
\* is not a descendant of a collapsed group; a leaf has an entry in the
\* serialized output if and only if it is not such a descendant and its
\* coerced value is defined; collapsing a group removes exactly its
\* descendants from both, and re-expanding it restores both.
C1_Collapse ==
    /\ NavShowsOpenRows
    /\ \A k \in LeafKeys(FormDefs) :
          getNestedValue(FormBody(props, form), k) # Undefined
              <=> ~UnderCollapsed(k, form.collapsedBodyGroups) /\ FormCoerced(k) # Undefined
    /\ CollapseRemovesAndRestores

\* the group g, holding a value, has been collapsed and expanded again
C1_Witness ==
    /\ beforeCollapse.phase = "restored" /\ beforeCollapse.group = <<"g">>
    /\ form.collapsedBodyGroups = {}
    /\ Lookup(form.bodyFieldValues, <<"g", "n">>) = "5"
    /\ getNestedValue(beforeCollapse.body, <<"g", "n">>) = JNum("5")

\* the form takes keys in Navigate: it is mounted with no overlay, no tree
\* view, no save prompt and no field in Edit
InNavigate(s) ==
    /\ s.mounted /\ Overlay(s) = "form" /\ ~s.treeMode /\ ~s.saveMode
    /\ s.editingField = NullId

Toggled(set, key) == IF key \in set THEN set \ {key} ELSE set \cup {key}

\* the field in Edit, if any, is the focused field and not a group or submit
EditedIsFocused ==
    form.editingField # NullId =>
        /\ form.editingField = form.focusedField
        /\ form.editingField.kind \notin {"body-group", "__submit__"}

\* a step that enters Edit is Enter in Navigate on the focused field
EditEntered ==
    (form.editingField = NullId /\ form'.editingField # NullId) =>
        /\ InNavigate(form)
        /\ form.focusedField.kind \notin {"body-group", "__submit__"}
        /\ form'.editingField = form.focusedField
        /\ \E in \in FormIns : form' = HandleKey(props, form, KReturn, in)

\* Enter on a group header in Navigate changes nothing but the membership of
\* that group in the collapse set
GroupToggles ==
    (InNavigate(form) /\ form.focusedField.kind = "body-group") =>
        \A in \in FormIns :
            HandleKey(props, form, KReturn, in) =
                [form EXCEPT !.collapsedBodyGroups = Toggled(@, form.focusedField.key)]

\* C5: the field being edited, if any, is the focused field and is neither a
\* group header nor the submit target; Edit is entered only by the activate
\* action on a focused non-group, non-submit field in Navigate; activating a
\* group header only toggles that group in the collapse set and leaves the
\* form in Navigate with focus on the header.
C5_EditOnlyByActivate ==
    [](EditedIsFocused /\ GroupToggles) /\ [][EditEntered]_vars

\* a field is in Edit after a group header was activated
C5_Witness ==
    /\ form.mounted /\ form.editingField = BodyId(<<"flag">>)
    /\ form.focusedField = BodyId(<<"flag">>)
    /\ form.collapsedBodyGroups = {<<"g">>}

(***************************************************************************)
(* Claims about the asynchronous paths                                     *)
(***************************************************************************)
\* C6: the lookup path and the submission path of a form instance each have
\* at most one network call outstanding at any time.
C6_OneOutstanding == Len(form.lookupCalls) <= 1 /\ Len(form.submitCalls) <= 1

\* C7: while a lookup (a submission) of the instance is outstanding the
\* lookup-fetching flag is set (the request state is 'loading').
C7_FetchingWhileOutstanding ==
    /\ Len(form.lookupCalls) > 0 => form.lookupFetching
    /\ Len(form.submitCalls) > 0 => form.reqState = "loading"

(***************************************************************************)
(* Claims about the editors and the import                                 *)
(***************************************************************************)
\* the day count of a month of the Gregorian calendar
CalendarDays(year, month) ==
    IF month = 2
    THEN (IF year % 400 = 0 \/ (year % 4 = 0 /\ year % 100 # 0) THEN 29 ELSE 28)
    ELSE IF month \in {4, 6, 9, 11} THEN 30 ELSE 31

IsCalendarDate(d) ==
    /\ d.year \in 1900..2100 /\ d.month \in 1..12
    /\ d.day \in 1..CalendarDays(d.year, d.month)
    /\ d.hour \in 0..23 /\ d.min \in 0..59 /\ d.sec \in 0..59

\* C8: after any sequence of segment moves, increments and decrements, digit
\* entries and 'now' actions from an unset or valid value, the stored value
\* is empty or a real calendar date/time.
C8_CalendarDate ==
    dtValue = "" \/ IsCalendarDate(parseDt(dtValue, Date(0, 0, 0, 0, 0, 0)))

\* C9: after any sequence of keystrokes the stored string of an integer or
\* number field is empty or a string that coerces to a number.
C9_NumericStored ==
    \A i \in DOMAIN FormDefs :
        BaseTypeOf(FormDefs[i]) \in {Ty("integer"), Ty("number")} =>
            NumberOf(Lookup(form.bodyFieldValues, FormDefs[i].fullKey)) # "NaN"

\* the pasted literals that are malformed: no cURL command, no url, or a body
\* that is not JSON
MalformedLiterals == {NotCurl, NoUrl, BadBody}

\* C10: importing a malformed literal leaves the path, query, header and
\* body values as they were and surfaces an error.
C10_MalformedImportNoOp ==
    [][(/\ form.mounted /\ Overlay(form) = "import"
        /\ form.importInput \in MalformedLiterals
        /\ form' = HandleKey(props, form, KReturn, NoInput))
       => (CachedForm(form') = CachedForm(form) /\ form'.importError # "")]_vars

(***************************************************************************)
(* Claims about lookups                                                    *)
(***************************************************************************)
\* a lookup execution that fails: an error, no body, or no value at the path
LookupFails(resp, lookup) ==
    \/ resp.failed
    \/ resp.body \in {JNull, Undefined}
    \/ resolvePathArray(resp.body, lookup.valuePath) = <<>>

\* the form after the i-th outstanding lookup has ended with resp
AfterLookup(i, resp) ==
    LookupThen([form EXCEPT !.lookupCalls = RemoveAt(@, i), !.lookupFetching = FALSE],
               form.lookupCalls[i].lookup, resp)

StartsLookup(s) == Len(HandleKey(props, s, "l", NoInput).lookupCalls) > Len(s.lookupCalls)

\* what a failed lookup leaves behind, from the form s to the form t
FailedLookupEffect(s, t) ==
    /\ CachedForm(t) = CachedForm(s) /\ t.baseUrlInput = s.baseUrlInput
    /\ t.lookupPickerOpen = s.lookupPickerOpen
    /\ t.lookupError # "" /\ t.timers = s.timers + 1
    /\ StartsLookup(s) => StartsLookup(t)

\* C11: a lookup that fails leaves every field value unchanged, does not open
\* the picker, reports a status message whose clearing is scheduled, and
\* leaves the form able to start the same lookup again.
C11_FailedLookup ==
    [][\A i \in DOMAIN form.lookupCalls, resp \in LookupResponses :
          (form.mounted /\ LookupFails(resp, form.lookupCalls[i].lookup)
              /\ form' = AfterLookup(i, resp))
          => FailedLookupEffect(form, form')]_vars

(***************************************************************************)
(* Claims about resolvePathArray                                           *)
(***************************************************************************)
\* the public syntax, followed depth first from one value: the values that
\* the segments parts[i..] reach from v, in element order
RECURSIVE Follow(_, _, _)
RECURSIVE FollowEach(_, _, _, _)
SegIsArr(part) == Len(part) >= 2 /\ SubSeq(part, Len(part) - 1, Len(part)) = "[]"
SegName(part) == IF SegIsArr(part) THEN SubSeq(part, 1, Len(part) - 2) ELSE part
SegTarget(v, name) ==
    IF name = "" THEN v ELSE IF v.t = "object" THEN ObjGet(v, name) ELSE Undefined

Follow(v, parts, i) ==
    IF i > Len(parts) THEN <<v>>
    ELSE IF SegIsArr(parts[i])
    THEN (IF SegTarget(v, SegName(parts[i])).t = "array"
          THEN FollowEach(SegTarget(v, SegName(parts[i])).e, 1, parts, i + 1) ELSE <<>>)
    ELSE IF SegTarget(v, SegName(parts[i])) = Undefined THEN <<>>
    ELSE Follow(SegTarget(v, SegName(parts[i])), parts, i + 1)

FollowEach(elems, j, parts, i) ==
    IF j > Len(elems) THEN <<>>
    ELSE Follow(elems[j], parts, i) \o FollowEach(elems, j + 1, parts, i)

\* the values as the picker shows them: null dropped, the others as text
ShownValues(list) ==
    [i \in DOMAIN SelectSeq(list, LAMBDA v : v # JNull) |->
        JsString(SelectSeq(list, LAMBDA v : v # JNull)[i])]

LpParts == Split(Trim(lpPath), ".")
ScenarioBody == JObj(<<[k |-> "fields", x |-> JArr(<<IdObj(JStr("7")), IdObj(JStr("9"))>>)]>>)

\* C12: the resolved list is what the public syntax reaches from the body
\* (a [] segment expands the array of the named property and continues per
\* element in element order, a plain segment takes the named property, an
\* empty name is the current element), and "fields[].id" against the
\* scenario body resolves to <<"7", "9">>.
C12_Resolve ==
    lpOut.stage = "done" =>
        /\ lpOut.list = ShownValues(Follow(lpBody, LpParts, 1))
        /\ (lpBody = ScenarioBody /\ lpPath = "fields[].id") => lpOut.list = <<"7", "9">>

C12_Witness ==
    /\ lpOut.stage = "done" /\ lpBody = ScenarioBody /\ lpPath = "fields[].id"
    /\ lpOut.list = <<"7", "9">>

\* the text of the path after its first segment
RECURSIVE DotPos(_, _)
DotPos(str, i) == IF i > Len(str) THEN 0 ELSE IF CharAt(str, i) = "." THEN i ELSE DotPos(str, i + 1)
RestOf(str) == IF DotPos(str, 1) = 0 THEN "" ELSE SubSeq(str, DotPos(str, 1) + 1, Len(str))

RECURSIVE PerElement(_, _, _)
PerElement(elems, j, rest) ==
    IF j > Len(elems) THEN <<>>
    ELSE resolvePathArray(elems[j], rest) \o PerElement(elems, j + 1, rest)

\* a path whose first segment expands an array resolves to the results of
\* the rest of the path on each element, one after the other: an element
\* without the key, or one that is no container, adds nothing and takes
\* nothing away from the others
BranchesIndependent ==
    (SegIsArr(LpParts[1]) /\ SegTarget(lpBody, SegName(LpParts[1])).t = "array")
    => lpOut.list = PerElement(SegTarget(lpBody, SegName(LpParts[1])).e, 1, RestOf(Trim(lpPath)))

PlainPath == \A i \in DOMAIN LpParts : ~SegIsArr(LpParts[i])
Target == Follow(lpBody, LpParts, 1)

RECURSIVE Flatten(_, _, _, _, _, _)
RECURSIVE FlattenChildren(_, _, _, _, _, _)
Flatten(value, key, path, depth, ancestors, lookup) ==
    <<[path |-> path, key |-> key, value |-> value, depth |-> depth,
       ancestors |-> ancestors, lookup |-> lookup]>>
    \o FlattenChildren(value, 1, path, depth, ancestors \cup {path}, lookup)

FlattenChildren(value, i, path, depth, ancestors, lookup) ==
    IF i > ChildCount(value) THEN <<>>
    ELSE Flatten(ChildValue(value, i), ChildKey(value, i), ChildPath(value, path, i), depth + 1,
                 ancestors,
                 IF value.t = "array" THEN lookup \o "[]"
                 ELSE IF depth = 0 THEN ChildKey(value, i)
                 ELSE lookup \o "." \o ChildKey(value, i))
         \o FlattenChildren(value, i + 1, path, depth, ancestors, lookup)

AllNodes == Flatten(treeProps.body, "root", "root", 0, {}, "")
TreeNodes == Nodes(treeProps, tree)

\* C14: the translation of the path of every node of the body is the path
\* without its root segment and with [] for every index, whatever the
\* indices are; root.fields[1].id gives fields[].id and root.a[0].b gives
\* a[].b; what Enter hands to onSelect is the translation of the selected
\* node's path.
C14_Translate ==
    /\ \A i \in DOMAIN AllNodes : treePathToLookupPath(AllNodes[i].path) = AllNodes[i].lookup
    /\ treePathToLookupPath("root.fields[1].id") = "fields[].id"
    /\ treePathToLookupPath("root.a[0].b") = "a[].b"
    /\ treeSelected # <<>> =>
          \E i \in DOMAIN AllNodes :
              /\ AllNodes[i].path = treeSelected[1].path
              /\ AllNodes[i].lookup = treeSelected[1].lookup

C14_Witness ==
    treeSelected = <<[path |-> "root.fields[1].id", lookup |-> "fields[].id"]>>

\* the cursor after n moves in one direction over a list of the given length
RECURSIVE Moved(_, _, _, _)
Moved(c, dir, n, length) ==
    IF n = 0 THEN c ELSE Moved(NextCursor(c, dir, length), dir, n - 1, length)

SingleMove(c, length) ==
    \A dir \in {1, -1} :
        NextCursor(c, dir, length) = IF c + dir \in 0..(length - 1) THEN c + dir ELSE c

\* C15 as stated: from every position of every reachable visible list, n
\* moves forward and n moves backward return to the position, for every n
\* below the length of the list; a move is one step, clamped to 0 and
\* length - 1.
C15_RoundTripOriginal ==
    \A c \in 0..(Len(TreeNodes) - 1) :
        /\ SingleMove(c, Len(TreeNodes))
        /\ \A n \in 0..(Len(TreeNodes) - 1) :
              Moved(Moved(c, 1, n, Len(TreeNodes)), -1, n, Len(TreeNodes)) = c

\* C15: from every position c of every reachable visible list, n moves
\* forward and n moves backward return to c when c + n stays within the
\* list, and end at length - 1 - n when the forward moves were clamped; a
\* move is one step, none at the bound.
C15_RoundTrip ==
    \A c \in 0..(Len(TreeNodes) - 1) :
        /\ SingleMove(c, Len(TreeNodes))
        /\ \A n \in 0..(Len(TreeNodes) - 1) :
              Moved(Moved(c, 1, n, Len(TreeNodes)), -1, n, Len(TreeNodes))
                = IF c + n <= Len(TreeNodes) - 1 THEN c ELSE Len(TreeNodes) - 1 - n

\* the cursor has been moved to the end of a list of six nodes
C15_Witness ==
    /\ tree.searchQuery = "" /\ tree.collapsed = {}
    /\ Len(TreeNodes) = 6 /\ tree.cursor = 5

Appears(r) == r.ancestors \cap tree.collapsed = {}
Shown == SelectSeq(AllNodes, Appears)
HasMembers(value) ==
    \/ value.t = "array" /\ Len(value.e) >= 1
    \/ value.t = "object" /\ Len(value.m) >= 1

\* C19: the visible list is the pre-order flattening of the body restricted
\* to the nodes with no ancestor in collapsedPaths; a node is expandable iff
\* it is an array or an object with at least one member, and the depth of a
\* child is one more than its parent's.
C19_Visible ==
    /\ Len(TreeNodes) = Len(Shown)
    /\ \A i \in DOMAIN TreeNodes :
          /\ TreeNodes[i].path = Shown[i].path
          /\ TreeNodes[i].key = Shown[i].key
          /\ TreeNodes[i].value = Shown[i].value
          /\ TreeNodes[i].depth = Shown[i].depth
          /\ TreeNodes[i].isExpandable = HasMembers(Shown[i].value)

\* a collapsed node is in the list and its descendants are not
C19_Witness ==
    /\ \E i \in DOMAIN TreeNodes :
          TreeNodes[i].path \in tree.collapsed /\ TreeNodes[i].isExpandable
    /\ Len(TreeNodes) < Len(AllNodes)

TreeMatches == matchIndices(TreeNodes, tree.searchQuery)
AtMatch(t) ==
    t.searchMatchIdx < Len(TreeMatches) /\ t.cursor = TreeMatches[t.searchMatchIdx + 1]
Browsing == tree.open /\ ~tree.capturing /\ ~tree.searching /\ tree.searchQuery # ""

ConfirmJumps ==
    (/\ tree.open /\ ~tree.capturing /\ tree.searching /\ Len(TreeMatches) > 0
     /\ tree' = JsonTreeInput(treeProps, tree, KReturn))
    => (~tree'.searching /\ tree'.cursor = TreeMatches[1] /\ tree'.searchMatchIdx = 0)

NextCycles ==
    (/\ Browsing /\ AtMatch(tree) /\ tree' = JsonTreeInput(treeProps, tree, "n"))
    => /\ tree'.cursor = TreeMatches[IF tree.searchMatchIdx + 1 = Len(TreeMatches) THEN 1
                                     ELSE tree.searchMatchIdx + 2]
       /\ AtMatch(tree')

PreviousCycles ==
    (/\ Browsing /\ AtMatch(tree) /\ tree' = JsonTreeInput(treeProps, tree, "N"))
    => /\ tree'.cursor = TreeMatches[IF tree.searchMatchIdx = 0 THEN Len(TreeMatches)
                                     ELSE tree.searchMatchIdx]
       /\ AtMatch(tree')

InEdit(s) ==
    /\ s.mounted /\ Overlay(s) = "form" /\ ~s.treeMode /\ ~s.saveMode
    /\ s.editingField # NullId

\* the values the form holds for its fields
ValueStore(s) ==
    <<s.baseUrlInput, s.pathValues, s.queryValues, s.headersStr, s.bodyFieldValues>>

\* g follows f in the sequence flds, the first element following the last
FollowsIn(flds, f, g) ==
    \E i \in DOMAIN flds : flds[i] = f /\ g = flds[(i % Len(flds)) + 1]

Confirmed(p, s, t) ==
    /\ t.editingField = NullId
    /\ FollowsIn(fields(p, s.collapsedBodyGroups), s.focusedField, t.focusedField)

Cancelled(s, t) ==
    /\ t.editingField = NullId
    /\ t.focusedField = s.focusedField
    /\ ValueStore(t) = ValueStore(s)

\* C16: from Edit, confirm ends editing and moves focus to the next field of
\* the navigable sequence; cancel ends editing with focus unchanged and with
\* the Value Store exactly as it was at the moment of cancel.
C16_EditExit ==
    InEdit(form) =>
        \A in \in FormIns :
            /\ Confirmed(props, form, HandleKey(props, form, KReturn, in))
            /\ Cancelled(form, HandleKey(props, form, KEscape, in))

\* the integer field is in Edit and a digit typed in this session is stored
C16_Witness ==
    /\ InEdit(form) /\ form.editingField = BodyId(<<"g", "n">>)
    /\ FieldValue(form, form.editingField) = "5"


\* the navigable sequence of the form
NavSeq == fields(props, form.collapsedBodyGroups)

\* n steps of focus movement in one direction, starting at f
RECURSIVE Steps(_, _, _, _)
Steps(flds, f, dir, n) ==
    IF n = 0 THEN f ELSE Steps(flds, moveFocus(flds, f, dir), dir, n - 1)

\* the base fields come first and the submit target last
BaseFirst(p, flds) ==
    /\ SubSeq(flds, 1, Len(p.pathParams) + Len(p.queryParams) + 2)
         = <<BaseUrlId>>
           \o [i \in DOMAIN p.pathParams |-> PathId(p.pathParams[i].name)]
           \o [i \in DOMAIN p.queryParams |-> QueryId(p.queryParams[i].name)]
           \o <<HeadersId>>
    /\ flds[Len(flds)] = SubmitId
    /\ \A i \in (Len(p.pathParams) + Len(p.queryParams) + 3)..(Len(flds) - 1) :
           /\ flds[i].kind \in {"body", "body-group"}
           /\ ~isChildOfCollapsed(flds[i].key, form.collapsedBodyGroups)

Circular(flds) ==
    /\ moveFocus(flds, SubmitId, 1) = flds[1]
    /\ moveFocus(flds, flds[1], -1) = SubmitId
    /\ \A i \in DOMAIN flds :
           /\ moveFocus(flds, moveFocus(flds, flds[i], 1), -1) = flds[i]
           /\ Steps(flds, flds[i], 1, Len(flds)) = flds[i]

\* in Navigate the arrow keys and Shift+Tab move the focus one step
KeysMoveFocus(flds) ==
    InNavigate(form) =>
        \A in \in FormIns :
            /\ form.focusedField \in Range(flds)
            /\ HandleKey(props, form, KDown, in).focusedField
                   = moveFocus(flds, form.focusedField, 1)
            /\ HandleKey(props, form, KTab, in).focusedField
                   = moveFocus(flds, form.focusedField, 1)
            /\ HandleKey(props, form, KUp, in).focusedField
                   = moveFocus(flds, form.focusedField, -1)
            /\ HandleKey(props, form, KShiftTab, in).focusedField
                   = moveFocus(flds, form.focusedField, -1)

\* C17: focus movement is circular in both directions over the navigable
\* sequence (base fields, then the schema fields that are under no collapsed
\* group, then the submit target): forward from the submit target reaches
\* the first field, backward from the first field reaches the submit target,
\* a step forward then a step backward returns to the same field, and as
\* many forward steps as the sequence has elements return to the start.
C17_Circular ==
    form.mounted => BaseFirst(props, NavSeq) /\ Circular(NavSeq) /\ KeysMoveFocus(NavSeq)

\* the same statement for a body in which no two rows have the same key
DistinctRows(flds) == \A i, j \in DOMAIN flds : flds[i] = flds[j] => i = j

C17_CircularDistinct ==
    (form.mounted /\ DistinctRows(NavSeq)) =>
        BaseFirst(props, NavSeq) /\ Circular(NavSeq) /\ KeysMoveFocus(NavSeq)


\* the form after the keys ks[i..], each handled in turn
RECURSIVE KeysFrom(_, _, _, _, _)
KeysFrom(p, s, ks, i, in) ==
    IF i > Len(ks) THEN s ELSE KeysFrom(p, HandleKey(p, s, ks[i], in), ks, i + 1, in)

Times(k, n) == [i \in 1..n |-> k]

\* the value of the field f after the keys ks
ValueAfter(s, f, ks, in) == FieldValue(KeysFrom(props, s, ks, 1, in), f)

\* the states of a boolean field in toggle order
BoolCycle(m) == IF m[1].nullable THEN <<"true", "false", "null">> ELSE <<"true", "false">>

UnsetBoolean(s) ==
    /\ InNavigate(s) /\ IsBoolean(MetaOf(props, s.focusedField))
    /\ FieldValue(s, s.focusedField) = ""

EditingBoolean(s) == InEdit(s) /\ IsBoolean(MetaOf(props, s.editingField))

\* entering Edit on an unset boolean stores 'true'
SeedsTrue ==
    UnsetBoolean(form) =>
        \A in \in FormIns :
            /\ HandleKey(props, form, KReturn, in).editingField = form.focusedField
            /\ ValueAfter(form, form.focusedField, <<KReturn>>, in) = "true"

\* one toggle from position i of the cycle c, and Len(c) toggles
OneStep(f, c, i, in) ==
    /\ ValueAfter(form, f, <<KRight>>, in) = c[(i % Len(c)) + 1]
    /\ ValueAfter(form, f, <<" ">>, in) = c[(i % Len(c)) + 1]
    /\ ValueAfter(form, f, <<KLeft>>, in) = c[((i + Len(c) - 2) % Len(c)) + 1]
    /\ ValueAfter(form, f, Times(KRight, Len(c)), in) = c[i]
    /\ ValueAfter(form, f, Times(KLeft, Len(c)), in) = c[i]
    /\ KeysFrom(props, form, Times(KRight, Len(c)), 1, in).editingField = f

TogglesCycle(f, c) ==
    \A i \in DOMAIN c :
        FieldValue(form, f) = c[i] => \A in \in FormIns : OneStep(f, c, i, in)

Toggles ==
    EditingBoolean(form) =>
        TogglesCycle(form.editingField, BoolCycle(MetaOf(props, form.editingField)))

\* C18 as stated: an unset boolean field becomes "true" on entering Edit,
\* each toggle moves one position cyclically over [true, false] (or
\* [true, false, null] when nullable), as many toggles in one direction as
\* there are states return to the start, and any boolean field toggled
\* twice from unset is back at "true".
C18_ToggleOriginal ==
    /\ SeedsTrue /\ Toggles
    /\ UnsetBoolean(form) =>
           \A in \in FormIns :
               ValueAfter(form, form.focusedField, <<KReturn, KRight, KRight>>, in) = "true"

TwiceFromUnset(f, nullable) ==
    \A in \in FormIns :
        /\ ValueAfter(form, f, <<KReturn, KRight, KRight>>, in)
               = IF nullable THEN "null" ELSE "true"
        /\ nullable => ValueAfter(form, f, <<KReturn, KRight, KRight, KRight>>, in) = "true"

\* C18: an unset boolean field becomes "true" on entering Edit; each toggle
\* moves one position cyclically over [true, false], or [true, false, null]
\* when the field is nullable, and as many toggles in one direction as there
\* are states return to the start; toggled twice from unset a field that is
\* not nullable is back at "true", a nullable one is at "null" and is back
\* at "true" after the third toggle.
C18_Toggle ==
    /\ SeedsTrue /\ Toggles
    /\ UnsetBoolean(form) =>
           TwiceFromUnset(form.focusedField, MetaOf(props, form.focusedField)[1].nullable)

\* the nullable boolean is in Edit, two toggles away from 'true'
C18_Witness ==
    /\ EditingBoolean(form) /\ form.editingField = BodyId(<<"flag">>)
    /\ FieldValue(form, form.editingField) = "null"


(***************************************************************************)
(* Claims about the descriptor list of a schema                            *)
(***************************************************************************)
\* the schema a property stands for: the first alternative of a oneOf that
\* is not null, with its allOf parts merged
EffectiveSchema(fs) ==
    mergeAllOf(IF Has(fs.oneOf) /\ \E j \in DOMAIN fs.oneOf[1] : fs.oneOf[1][j].type # <<"null">>
               THEN fs.oneOf[1][CHOOSE j \in DOMAIN fs.oneOf[1] :
                        /\ fs.oneOf[1][j].type # <<"null">>
                        /\ \A k \in 1..(j - 1) : fs.oneOf[1][k].type = <<"null">>]
               ELSE fs)

\* the properties of a schema in the order the document declares them
DeclaredProps(schema) == OptList(mergeAllOf(schema).properties)
DeclaredNames(schema) == [i \in DOMAIN DeclaredProps(schema) |-> DeclaredProps(schema)[i].name]

\* the last position of the block of descriptors nested under position i
BlockEnd(defs, i) ==
    CHOOSE j \in i..Len(defs) :
        /\ \A k \in (i + 1)..j : defs[k].indent > defs[i].indent
        /\ (j < Len(defs) => defs[j + 1].indent <= defs[i].indent)

\* the labels of the descriptors of one indent between two positions
RECURSIVE LabelsAt(_, _, _, _)
LabelsAt(defs, from, to, indent) ==
    IF from > to THEN <<>>
    ELSE (IF defs[from].indent = indent THEN <<defs[from].label>> ELSE <<>>)
         \o LabelsAt(defs, from + 1, to, indent)

\* the header a nested descriptor belongs to
ParentOf(defs, i) ==
    CHOOSE j \in 1..(i - 1) :
        /\ defs[j].indent = defs[i].indent - 1
        /\ \A k \in (j + 1)..(i - 1) : defs[k].indent >= defs[i].indent

RECURSIVE LabelPath(_, _)
LabelPath(defs, i) ==
    IF defs[i].indent = 0 THEN <<defs[i].label>>
    ELSE Append(LabelPath(defs, ParentOf(defs, i)), defs[i].label)

\* the schema reached from a schema along a path of property names
RECURSIVE SchemaAt(_, _)
SchemaAt(schema, path) ==
    IF path = <<>> THEN schema
    ELSE SchemaAt(EffectiveSchema(
                      DeclaredProps(schema)[CHOOSE i \in DOMAIN DeclaredProps(schema) :
                          DeclaredProps(schema)[i].name = Head(path)].s),
                  Tail(path))

\* the number of descriptors a schema at an indent stands for
RECURSIVE DescCount(_, _)
RECURSIVE DescCountFrom(_, _, _)
DescCountFrom(entries, i, indent) ==
    IF i > Len(entries) THEN 0
    ELSE 1 + (IF Has(EffectiveSchema(entries[i].s).properties) /\ indent < 2
              THEN DescCount(EffectiveSchema(entries[i].s), indent + 1) ELSE 0)
           + DescCountFrom(entries, i + 1, indent)

DescCount(schema, indent) == DescCountFrom(DeclaredProps(schema), 1, indent)

IsStrictPrefix(a, b) == Len(a) < Len(b) /\ SubSeq(b, 1, Len(a)) = a

\* a header is followed at once by the block of its descendants, the
\* descriptors of its schema, whose keys extend its key
GroupBlock(schema, defs, i) ==
    /\ BlockEnd(defs, i) - i = DescCount(SchemaAt(schema, LabelPath(defs, i)), defs[i].indent + 1)
    /\ \A k \in (i + 1)..BlockEnd(defs, i) : IsStrictPrefix(defs[i].fullKey, defs[k].fullKey)
    /\ BlockEnd(defs, i) > i => defs[i + 1].indent = defs[i].indent + 1

\* the children of a header are the declared properties, in declared order
GroupOrder(schema, defs, i) ==
    LabelsAt(defs, i + 1, BlockEnd(defs, i), defs[i].indent + 1)
        = DeclaredNames(SchemaAt(schema, LabelPath(defs, i)))

Headers(defs) == {i \in DOMAIN defs : defs[i].isGroupHeader}

Blocks(schema, defs) == \A i \in Headers(defs) : GroupBlock(schema, defs, i)

InDeclaredOrder(schema, defs) ==
    /\ LabelsAt(defs, 1, Len(defs), 0) = DeclaredNames(schema)
    /\ \A i \in Headers(defs) : GroupOrder(schema, defs, i)

Keys(defs) == [i \in DOMAIN defs |-> defs[i].fullKey]

\* C21: the descriptor list of a schema is in the schema's declared property
\* order, every group header is immediately followed by its children, the
\* descendants of a group form one contiguous block directly after the
\* header and before the group's next sibling, and rebuilding the same
\* schema yields the same fullKeys in the same order.
C21_Ordered ==
    bdBuilds > 0 =>
        /\ Blocks(bdSchema, bdDefs)
        /\ InDeclaredOrder(bdSchema, bdDefs)
        /\ Keys(BodyFieldDefs(bdSchema)) = Keys(bdDefs)

\* the schemas in which no property name is an array index
RECURSIVE NoIndexNames(_)
NoIndexNames(schema) ==
    \A i \in DOMAIN DeclaredProps(schema) :
        /\ ~IsArrayIndex(DeclaredProps(schema)[i].name)
        /\ NoIndexNames(EffectiveSchema(DeclaredProps(schema)[i].s))

\* the same statement where every property has a name that is not an index,
\* and the blocks and the rebuild for every schema
C21_OrderedNamed ==
    bdBuilds > 0 =>
        /\ Blocks(bdSchema, bdDefs)
        /\ NoIndexNames(bdSchema) => InDeclaredOrder(bdSchema, bdDefs)
        /\ Keys(BodyFieldDefs(bdSchema)) = Keys(bdDefs)


\* the schema of the property a descriptor was built from has properties
HasNested(schema, defs, i) == DeclaredProps(SchemaAt(schema, LabelPath(defs, i))) # <<>>

\* every declared property of a header at indent 1 is one descriptor
OnePerProperty(schema, defs, i) ==
    /\ BlockEnd(defs, i) - i = Len(DeclaredNames(SchemaAt(schema, LabelPath(defs, i))))
    /\ Range(LabelsAt(defs, i + 1, BlockEnd(defs, i), 2))
           = Range(DeclaredNames(SchemaAt(schema, LabelPath(defs, i))))

Capped(schema, defs) ==
    \A i \in DOMAIN defs :
        /\ defs[i].indent \in 0..2
        /\ defs[i].isGroupHeader => defs[i].indent \in {0, 1}
        /\ (defs[i].isGroupHeader /\ defs[i].indent = 1) => OnePerProperty(schema, defs, i)

\* C22: nesting beyond the depth cap never fails the build and never
\* produces descriptors beyond the cap: group headers occur only at indent
\* 0 and 1, no descriptor has indent greater than 2, and a property at
\* indent 2 is one non-group leaf with no descriptors beneath it even when
\* its schema has nested properties.
C22_DepthCap == bdBuilds > 0 => Capped(bdSchema, bdDefs)

\* a built list with a leaf at indent 2 whose schema has properties
C22_Witness ==
    /\ bdBuilds > 0
    /\ \E i \in DOMAIN bdDefs :
           /\ bdDefs[i].indent = 2 /\ ~bdDefs[i].isGroupHeader
           /\ HasNested(bdSchema, bdDefs, i)


(***************************************************************************)
(* Claims about form sessions, modes and the asynchronous results          *)
(***************************************************************************)
\* a step in which a new form instance is mounted
NewInstance == ~form.mounted /\ form'.mounted

\* a step in which the form instance is unmounted
SessionEnds == form.mounted /\ ~form'.mounted

StartsAfresh(s) ==
    /\ InNavigate(s) /\ s.focusedField = BaseUrlId
    /\ s.collapsedBodyGroups = {} /\ ~s.result.present

ActiveOverlays(s) ==
    {o \in {"varPicker", "faker", "patterns", "lookupSetup", "lookupPicker",
            "import", "save", "tree"} :
        \/ o = "varPicker" /\ s.varPickerOpen
        \/ o = "faker" /\ s.fakerOpen
        \/ o = "patterns" /\ s.patternsOpen
        \/ o = "lookupSetup" /\ s.lookupSetupOpen
        \/ o = "lookupPicker" /\ s.lookupPickerOpen
        \/ o = "import" /\ s.importOpen
        \/ o = "save" /\ s.saveMode
        \/ o = "tree" /\ s.treeMode}

\* C24: the form is in exactly one mode at a time among Navigate, Edit and
\* the overlays: at most one overlay is active, and none is active while a
\* field is being edited.
C24_OneMode ==
    form.mounted =>
        /\ Cardinality(ActiveOverlays(form)) <= 1
        /\ form.editingField # NullId => ActiveOverlays(form) = {}


\* C25: if several submissions are issued from one form instance before
\* earlier ones have completed, then once all of them have completed the
\* displayed result and the request state are those of the submission
\* issued last.
C25_LastIssuedWins ==
    (form.mounted /\ form.submitCalls = <<>> /\ form.result.present) =>
        form.result.of = "latest"


\* Enter in the lookup picker on an item
Picks ==
    /\ form.mounted /\ form.lookupPickerOpen /\ ~form.treeMode
    /\ form.lookupPickerIdx + 1 \in DOMAIN form.lookupPickerItems
    /\ form' = HandleKey(props, form, KReturn, NoInput)

PickedValue == form.lookupPickerItems[form.lookupPickerIdx + 1].value

\* the field every lookup of the configuration is launched from: the path
\* parameter id is its only field with a lookup
LaunchField == PathId("id")

\* a lookup is started only with the focus on the launch field
LaunchedFromField ==
    Len(form'.lookupCalls) > Len(form.lookupCalls) => form.focusedField = LaunchField

\* C26: the value picked from a lookup picker is written to the field from
\* which that lookup was launched and to no other field, even if focus
\* moved or another field entered Edit while the call was outstanding.
C26_PickGoesToLaunchField ==
    [][/\ LaunchedFromField
       /\ Picks => ValueStore(form') = ValueStore(insertFakerValue(LaunchField, form, PickedValue))]_vars

\* the same statement for a pick made with the focus on the launch field
C26_PickGoesToFocusedField ==
    [][/\ LaunchedFromField
       /\ Picks => ValueStore(form') = ValueStore(insertFakerValue(form.focusedField, form, PickedValue))]_vars


\* the value and label of one element of the response, the label absent
\* when the element has none
PairOf(e) ==
    [value |-> Strings(<<Member(e, "id")>>)[1],
     label |-> IF Member(e, "name") \in {JNull, Undefined} THEN <<>>
               ELSE Strings(<<Member(e, "name")>>)]

HasValue(e) == e.t = "object" /\ Member(e, "id") \notin {JNull, Undefined}

\* the items of the elements of body.items that have a value, in order
ParallelItems(body) ==
    [i \in DOMAIN SelectSeq(Member(body, "items").e, HasValue) |->
        PairOf(SelectSeq(Member(body, "items").e, HasValue)[i])]

FromResponse(items) ==
    \E resp \in LookupResponses :
        /\ resp.body.t = "object" /\ Member(resp.body, "items").t = "array"
        /\ items = ParallelItems(resp.body)

\* C27: the items of the lookup picker are parallel value/label pairs: the
\* label at position i is the label-path value of the response element that
\* produced the value at position i, and picking item i replaces the
\* focused field's value with exactly the value at position i.
C27_ParallelItems ==
    [][/\ form'.lookupPickerOpen => FromResponse(form'.lookupPickerItems)
       /\ Picks => ValueStore(form')
                      = ValueStore(insertFakerValue(form.focusedField, form, PickedValue))]_vars


(***************************************************************************)
(* Claims about the tree and the lookup paths it seeds                     *)
(***************************************************************************)
\* the lookup path seeded at a node finds the node's value in the body
FindsValue(body, node) ==
    Strings(<<node.value>>)[1]
        \in Range(resolvePathArray(body, treePathToLookupPath(node.path)))

Leaves(nodes) == {i \in DOMAIN nodes : ~IsExpandable(nodes[i].value)}

\* C28: for every leaf node of a response body shown in the tree, resolving
\* the translation of the node's tree path against the same body yields a
\* list that contains the node's stringified value.
C28_SeedFindsValue ==
    ~("idle" \in DOMAIN treeProps) =>
        \A i \in Leaves(AllNodes) : FindsValue(treeProps.body, AllNodes[i])

\* a key that the lookup-path syntax can name
PlainKey(key) == key # "" /\ ~Includes(key, ".") /\ ~Includes(key, "[") /\ ~Includes(key, "]")

\* a value in which every key is plain and no array is an element of an array
RECURSIVE PlainValue(_)
PlainValue(value) ==
    \A i \in 1..ChildCount(value) :
        /\ value.t = "object" => PlainKey(ChildKey(value, i))
        /\ value.t = "array" => ChildValue(value, i).t # "array"
        /\ PlainValue(ChildValue(value, i))

\* the same statement for the leaves that are not null of a body with plain
\* keys and without arrays of arrays
C28_SeedFindsValuePlain ==
    (~("idle" \in DOMAIN treeProps) /\ PlainValue(treeProps.body)) =>
        \A i \in Leaves(AllNodes) :
            AllNodes[i].value # JNull => FindsValue(treeProps.body, AllNodes[i])

\* C29: in the tree the cursor always indexes a node of the visible list,
\* 0 <= cursor < list length, after any sequence of cursor moves, toggles,
\* step-outs, search jumps and replacements of the body by a submission that
\* completes later.
C29_CursorInList ==
    ~("idle" \in DOMAIN tree) => tree.cursor \in 0..(Len(TreeNodes) - 1)

\* no two nodes of the whole tree share a path
DistinctPaths(nodes) ==
    \A i, j \in DOMAIN nodes : nodes[i].path = nodes[j].path => i = j

\* C29, for one body that is never replaced and whose nodes have distinct
\* paths: the cursor indexes a node of the visible list.
C29_CursorInListOneBody ==
    (~("idle" \in DOMAIN tree) /\ DistinctPaths(AllNodes)) =>
        tree.cursor \in 0..(Len(TreeNodes) - 1)

\* C30: for the fixed viewport size of the tree, after any sequence of cursor
\* moves, step-outs, search jumps and toggles the scroll offset keeps the
\* cursor inside the viewport: scrollOff <= cursor < scrollOff + v.
C30_CursorInViewport ==
    ~("idle" \in DOMAIN tree) =>
        /\ tree.scrollOff <= tree.cursor
        /\ tree.cursor < tree.scrollOff + visibleCount(treeProps)

\* the list was scrolled, a node was collapsed, and the cursor is on the last
\* row of the viewport
C30_Witness ==
    /\ ~("idle" \in DOMAIN tree)
    /\ tree.scrollOff > 0
    /\ tree.collapsed # {}
    /\ tree.cursor = tree.scrollOff + visibleCount(treeProps) - 1

(***************************************************************************)
(* Claims about toggles, step-outs, search input and captures in the tree  *)
(***************************************************************************)
\* the tree takes navigation keys and the cursor is on a node of the list
OnNode == tree.open /\ ~tree.capturing /\ ~tree.searching /\ tree.cursor < Len(TreeNodes)

CursorNode == TreeNodes[tree.cursor + 1]

\* the cursor of t is on a node of the list of t with the path of node
StillOn(t, node) ==
    /\ t.cursor < Len(Nodes(treeProps, t))
    /\ Nodes(treeProps, t)[t.cursor + 1].path = node.path

ToggleLeaf(t) == t.collapsed = tree.collapsed /\ t.cursor = tree.cursor

ToggleExpandable(node, t, k) ==
    /\ (node.path \in t.collapsed) = ~(node.path \in tree.collapsed)
    /\ t.collapsed \ {node.path} = tree.collapsed \ {node.path}
    /\ t.cursor = tree.cursor
    /\ StillOn(t, node) => Nodes(treeProps, JsonTreeInput(treeProps, t, k)) = TreeNodes

\* C31: toggling a leaf changes neither collapsedPaths nor the cursor;
\* toggling an expandable node flips the membership of that node's path in
\* collapsedPaths and of no other path, and toggling the same node twice
\* restores the visible list.
C31_Toggle ==
    OnNode =>
        \A k \in {KReturn, " "} :
            IF CursorNode.isExpandable
            THEN ToggleExpandable(CursorNode, JsonTreeInput(treeProps, tree, k), k)
            ELSE ToggleLeaf(JsonTreeInput(treeProps, tree, k))

\* the cursor is on a collapsed node and two paths are collapsed
C31_Witness ==
    /\ OnNode /\ CursorNode.isExpandable /\ CursorNode.path \in tree.collapsed
    /\ Cardinality(tree.collapsed) >= 2

\* i is the position, from 0, of the nearest node before position c of
\* strictly lower depth
IsParentOf(nodes, i, c) ==
    /\ i < c
    /\ nodes[i + 1].depth < nodes[c + 1].depth
    /\ \A j \in (i + 1)..(c - 1) : nodes[j + 1].depth >= nodes[c + 1].depth

Collapses(node, t) ==
    t.collapsed = tree.collapsed \cup {node.path} /\ t.cursor = tree.cursor

StepsOut(node, t) ==
    /\ t.collapsed = tree.collapsed
    /\ IF node.depth = 0 THEN t.cursor = tree.cursor
       ELSE \E i \in 0..(tree.cursor - 1) :
               IsParentOf(TreeNodes, i, tree.cursor) /\ t.cursor = i

\* C32: collapse/step-out on an expanded expandable node adds its path to
\* collapsedPaths and leaves the cursor; on a leaf or a collapsed node it
\* leaves collapsedPaths and moves the cursor to the nearest earlier node of
\* the visible list of strictly lower depth, the root staying in place.
C32_StepOut ==
    OnNode =>
        IF CursorNode.isExpandable /\ CursorNode.path \notin tree.collapsed
        THEN Collapses(CursorNode, JsonTreeInput(treeProps, tree, KLeft))
        ELSE StepsOut(CursorNode, JsonTreeInput(treeProps, tree, KLeft))

\* the cursor is on a collapsed node whose parent is not the root and not the
\* row above
C32_Witness ==
    /\ OnNode /\ CursorNode.path \in tree.collapsed /\ CursorNode.depth >= 2
    /\ \E i \in 1..(tree.cursor - 2) : IsParentOf(TreeNodes, i, tree.cursor)

SearchActive == tree.open /\ ~tree.capturing /\ tree.searching

\* the character k typed into the search input is appended to the query and
\* the input stays active
Appended(t, k) == t.searching /\ t.searchQuery = tree.searchQuery \o k

\* C33: while the search input is active every printable character typed is
\* appended to the live query, so every query string can be entered.
C33_EveryCharAppended ==
    SearchActive => \A k \in TreeTexts : Appended(JsonTreeInput(treeProps, tree, k), k)

\* C33 for the characters other than "n": each is appended to the live query.
C33_OtherCharsAppended ==
    SearchActive =>
        \A k \in TreeTexts \ {"n"} : Appended(JsonTreeInput(treeProps, tree, k), k)

CaptureActive == tree.open /\ tree.capturing

\* Enter in capture mode stores a binding
Captures ==
    /\ Trim(tree.captureVarName) # "" /\ treeProps.activeEnv
    /\ tree.cursor < Len(TreeNodes)

CapturedValue == nodeValueToString(TreeNodes[tree.cursor + 1].value)

\* C34: a capture binds the name to the stringified value of the selected
\* node in the variable store of the active environment and the store still
\* holds every other variable bound before; a capture confirmed with an empty
\* name or without an active environment changes nothing.
C34_CaptureKeepsOthers ==
    CaptureActive =>
        JsonTreeInput(treeProps, tree, KReturn).variables =
            IF Captures THEN MapSet(tree.variables, Trim(tree.captureVarName), CapturedValue)
            ELSE tree.variables

\* C34 over the variables the environment had when the session began: a
\* capture stores those variables and the new binding, and nothing else.
C34_CaptureOverInitial ==
    CaptureActive =>
        JsonTreeInput(treeProps, tree, KReturn).variables =
            IF Captures THEN MapSet(treeProps.variables, Trim(tree.captureVarName), CapturedValue)
            ELSE tree.variables

(***************************************************************************)
(* Claims about the focus, date editing, smart fill and initial values     *)
(***************************************************************************)
Navigable == fields(props, form.collapsedBodyGroups)

\* C35: in every reachable state of the form the focused field is a member
\* of the current navigable sequence, so it is never a descriptor hidden
\* under a collapsed group.
C35_FocusNavigable ==
    form.mounted => \E i \in DOMAIN Navigable : Navigable[i] = form.focusedField

\* the focus is on a collapsed group header and the sequence is shorter than
\* with every group expanded
C35_Witness ==
    /\ form.mounted
    /\ form.focusedField.kind = "body-group"
    /\ form.focusedField.key \in form.collapsedBodyGroups
    /\ Len(Navigable) < Len(fields(props, {}))

\* the natural width of a segment
SegWidth(seg) == IF seg = "year" THEN 4 ELSE 2

DateSeg == SegsOf(dtOnly)[dtSegIdx + 1]
LastSeg == Len(SegsOf(dtOnly)) - 1

\* the date the digit is typed over: the stored value, the present moment
\* when the field is empty
TypedOver(now) == parseDt(IF dtValue = "" THEN formatDt(parseDt("", now), dtOnly) ELSE dtValue, now)

SegLow(seg) == IF seg = "year" THEN 1900 ELSE IF seg \in {"month", "day"} THEN 1 ELSE 0
SegHigh(seg, d) ==
    CASE seg = "year" -> 2100
      [] seg = "month" -> 12
      [] seg = "day" -> CalendarDays(d.year, d.month)
      [] seg = "hour" -> 23
      [] OTHER -> 59

\* the number n brought into the range of the segment
InRange(seg, n, d) ==
    IF n < SegLow(seg) THEN SegLow(seg) ELSE IF n > SegHigh(seg, d) THEN SegHigh(seg, d) ELSE n

\* the stored value after the digit: the selected segment holds the number of
\* the buffer, the other segments of the stored form are as before
Overwrites(r, buf, now) ==
    /\ r.wrote
    /\ parseDt(r.value, now)[DateSeg] = InRange(DateSeg, ParseInt(buf), TypedOver(now))
    /\ \A seg \in Range(SegsOf(dtOnly)) \ {DateSeg} :
          parseDt(r.value, now)[seg] = TypedOver(now)[seg]

\* the buffer and the segment cursor after the digit
Accumulates(r, buf) ==
    IF Len(buf) = SegWidth(DateSeg)
    THEN r.dtTypeBuf = "" /\ r.dateSegIdx = (IF dtSegIdx = LastSeg THEN dtSegIdx ELSE dtSegIdx + 1)
    ELSE r.dtTypeBuf = buf /\ r.dateSegIdx = dtSegIdx

DigitTyped(k, now) ==
    /\ Overwrites(DateInput(dtOnly, dtValue, dtSegIdx, dtBuf, k, now), dtBuf \o k, now)
    /\ Accumulates(DateInput(dtOnly, dtValue, dtSegIdx, dtBuf, k, now), dtBuf \o k)

\* a move of the segment cursor or a deletion empties the buffer
BufferEmptied(r) == r.dtTypeBuf = ""

\* a key that changes the segment cursor leaves an empty buffer
NoLeak(r) == r.dateSegIdx # dtSegIdx => r.dtTypeBuf = ""

DateMeta == <<[baseType |-> Ty("string"), nullable |-> FALSE, enumValues |-> <<>>,
               format |-> <<IF dtOnly THEN "date" ELSE "date-time">>]>>

\* Edit entered again on the field in its present state
Reentered ==
    EnterEdit(BodyId(<<"at">>), DateMeta, dtValue,
              [editingField |-> NullId, dateSegIdx |-> dtSegIdx, dtTypeBuf |-> dtBuf])

\* C36: in Edit on a date or date-time field the typed digits accumulate in a
\* buffer whose value overwrites the selected segment; exactly when the
\* buffer reaches the width of the segment (4 for year, 2 otherwise) it is
\* emptied and the segment cursor advances by one, staying on the last
\* segment; the buffer is also emptied when the segment cursor is moved, the
\* value is deleted or Edit is entered, and it is never longer than the
\* digits typed for the selected segment.
C36_DigitBuffer ==
    /\ Len(dtBuf) < SegWidth(DateSeg)
    /\ \A now \in DateNows :
          /\ \A k \in DateDigits : DigitTyped(k, now)
          /\ \A k \in {KLeft, KRight, KBackspace} :
                BufferEmptied(DateInput(dtOnly, dtValue, dtSegIdx, dtBuf, k, now))
          /\ \A k \in {KLeft, KRight, KBackspace, KUp, KDown, "n"} \cup DateDigits :
                NoLeak(DateInput(dtOnly, dtValue, dtSegIdx, dtBuf, k, now))
    /\ Reentered.dtTypeBuf = "" /\ Reentered.dateSegIdx = 0

\* four digits typed for the year have moved the segment cursor to the month
C36_Witness ==
    /\ dtKeys = 4 /\ dtSegIdx = 1 /\ dtBuf = ""
    /\ Len(dtValue) >= 4 /\ SubSeq(dtValue, 1, 4) = "2090"

Fillable(f) == f.kind \in {"body", "path", "query"}

\* the name smart fill matches against the variables: the label of a body
\* field, the name of a parameter
FillName(f) ==
    IF f.kind = "body" THEN FindLeaf(props.bodyFieldDefs, f.key)[1].label ELSE f.key[1]

\* (a) the schema example of the field, <<>> when it has none
SchemaExample(f) ==
    IF f.kind = "body" THEN FindLeaf(props.bodyFieldDefs, f.key)[1].example
    ELSE FindParam(IF f.kind = "path" THEN props.pathParams ELSE props.queryParams,
                   f.key[1])[1].schema.example

\* (b) the reference to the variable whose name matches, <<>> when none does
VariableReference(f) ==
    IF \E i \in DOMAIN props.envVars : ToLower(props.envVars[i]) = ToLower(FillName(f))
    THEN <<"{{" \o props.envVars[CHOOSE i \in DOMAIN props.envVars :
                        /\ ToLower(props.envVars[i]) = ToLower(FillName(f))
                        /\ \A j \in 1..(i - 1) :
                              ToLower(props.envVars[j]) # ToLower(FillName(f))] \o "}}">>
    ELSE <<>>

\* (c) the value of the trained pattern of the field; the keys of the
\* specification train none
TrainedPattern(f) == <<>>

SmartFill(f) ==
    IF SchemaExample(f) # <<>> THEN SchemaExample(f)[1]
    ELSE IF VariableReference(f) # <<>> THEN VariableReference(f)[1]
    ELSE IF TrainedPattern(f) # <<>> THEN TrainedPattern(f)[1]
    ELSE ""

\* C37: smart fill never changes a field whose value is non-empty; when Tab
\* advances the focus away from an empty field it fills the first available
\* of the schema example, the reference to a variable of matching name and
\* the value of a trained pattern, and leaves the field blank when there is
\* none.
C37_SmartFill ==
    (InNavigate(form) /\ Fillable(form.focusedField)) =>
        \A in \in FormIns :
            FieldValue(HandleKey(props, form, KTab, in), form.focusedField) =
                IF FieldValue(form, form.focusedField) # ""
                THEN FieldValue(form, form.focusedField)
                ELSE SmartFill(form.focusedField)

\* C37, the part about fields that hold a value: Tab leaves them as they are.
C37_NonEmptyKept ==
    (InNavigate(form) /\ Fillable(form.focusedField)
        /\ FieldValue(form, form.focusedField) # "") =>
        \A in \in FormIns :
            FieldValue(HandleKey(props, form, KTab, in), form.focusedField) =
                FieldValue(form, form.focusedField)

\* the property a descriptor stands for, as the schema declares it
PropertyIn(schema, name) ==
    DeclaredProps(schema)[CHOOSE i \in DOMAIN DeclaredProps(schema) :
                              DeclaredProps(schema)[i].name = name].s

PropertyAt(schema, path) ==
    PropertyIn(SchemaAt(schema, SubSeq(path, 1, Len(path) - 1)), path[Len(path)])

\* the first available of the declared default, the declared example and the
\* first enum value, the empty string when there is none
Seed(fs) ==
    IF fs.default # <<>> THEN fs.default[1]
    ELSE IF fs.example # <<>> THEN fs.example[1]
    ELSE IF fs.enum # <<>> /\ fs.enum[1] # <<>> THEN fs.enum[1][1]
    ELSE ""

\* the value the fresh store gives for a descriptor is the seed of its
\* property, read from the property itself or from the schema it stands for
SeededAs(values, def, fs) ==
    Lookup(values, def.fullKey) \in {Seed(fs), Seed(EffectiveSchema(fs))}

FreshStore == buildInitialFieldValues(bdDefs, <<bdSchema>>)

\* C38: a fresh Value Store seeds every leaf descriptor of the field model,
\* under the descriptor's fullKey, with the first available of the declared
\* default, the declared example and the first enum value, and otherwise
\* with the empty string.
C38_SeedsLeaves ==
    \A i \in DOMAIN bdDefs :
        ~bdDefs[i].isGroupHeader =>
            SeededAs(FreshStore, bdDefs[i], PropertyAt(bdSchema, LabelPath(bdDefs, i)))

\* the schema has no oneOf property that stands for an object
NoObjectAlternative(schema) ==
    \A i \in DOMAIN DeclaredProps(schema) :
        ~(/\ Has(DeclaredProps(schema)[i].s.oneOf)
          /\ DeclaredProps(EffectiveSchema(DeclaredProps(schema)[i].s)) # <<>>)

\* C38 for the schemas with no object under a oneOf: every leaf descriptor
\* is seeded.
C38_SeedsPlainLeaves == NoObjectAlternative(bdSchema) => C38_SeedsLeaves

(***************************************************************************)
(* Claims about the replay of a history entry and the match index          *)
(***************************************************************************)
\* v === null || v === undefined ? '' : typeof v === 'object' ? JSON.stringify(v) : String(v)
FlatText(v) ==
    IF v = JNull \/ v = Undefined THEN ""
    ELSE IF v.t = "array" THEN JsonStringify(v)
    ELSE v.v

\* flattenObject(obj, prefix): the flat map of an object's scalar and array
\* members under their dotted keys; a nested object adds the entries of its
\* own members and none for itself
RECURSIVE flattenObject(_, _)
RECURSIVE FlattenEntries(_, _, _, _)
FlattenEntries(m, i, prefix, result) ==
    IF i > Len(m) THEN result
    ELSE FlattenEntries(m, i + 1, prefix,
            IF m[i].x.t = "object"
            THEN MapMerge(result, flattenObject(m[i].x, FullKey(prefix, m[i].k)))
            ELSE MapSet(result, FullKey(prefix, m[i].k), FlatText(m[i].x)))

flattenObject(obj, prefix) ==
    IF obj.t # "object" THEN EmptyMap ELSE FlattenEntries(obj.m, 1, prefix, EmptyMap)

\* addToHistory: the bodyFieldValues of the entry recorded for a submission
\* with body text `text`, the JSON text of the object `body`
EntryBodyFieldValues(text, body) ==
    IF Trim(text) # "" THEN flattenObject(body, <<>>) ELSE EmptyMap

\* loadEntry puts the entry's bodyFieldValues into the form cache, the form
\* mounts with them and with no group collapsed; the body it then submits
ReplayedBody ==
    SerializeObject(SerFields, EntryBodyFieldValues(serText, serBody), {})

\* C39: opening the form from the history entry of a submission and
\* serializing it without further edits yields the nested body that was
\* submitted, for every field model and every submitted value map.
C39_ReplaySameBody == serStage # "input" => ReplayedBody = serBody

\* no member of the submitted body, at any depth, is null
RECURSIVE NoNullMember(_)
NoNullMember(x) ==
    IF x.t = "object" THEN \A i \in DOMAIN x.m : NoNullMember(x.m[i].x)
    ELSE x # JNull

\* no leaf descriptor of the field model holds an object in the body
NoObjectLeaf(defs, body) ==
    \A i \in DOMAIN defs :
        ~defs[i].isGroupHeader => getNestedValue(body, defs[i].fullKey).t # "object"

\* C39 for the submitted bodies with no null member and no object held by
\* one leaf descriptor.
C39_ReplaySameScalars ==
    (serStage # "input" /\ NoNullMember(serBody) /\ NoObjectLeaf(SerFields, serBody))
        => ReplayedBody = serBody

\* C40: whenever the tree has an active query with a non-empty match list,
\* the current match index is a valid position in that list, after any
\* interleaving of typing, confirming, next/previous and collapse/expand.
C40_MatchIndexValid ==
    (tree.open /\ tree.searchQuery # "" /\ Len(TreeMatches) > 0)
        => tree.searchMatchIdx \in 0..(Len(TreeMatches) - 1)

\* C40 for the states with every node expanded.
C40_MatchIndexValidExpanded == tree.open /\ tree.collapsed = {} => C40_MatchIndexValid

\* a next or previous step leaves the index at a valid position of the
\* match list it stepped through
C40_StepLandsInList ==
    \A k \in {"n", "N"} :
        (Browsing /\ Len(TreeMatches) > 0)
            => JsonTreeInput(treeProps, tree, k).searchMatchIdx \in 0..(Len(TreeMatches) - 1)

====
